---------------------------- MODULE Spec2Model ----------------------------
(***************************************************************************)
(* Model of vub-hpc/build_tools:                                           *)
(*   - the build job script rendered from BUILD_JOB                        *)
(*     (src/src/build_tools/jobtemplate.py) with its two-phase sandboxed   *)
(*     install, and the phase-2 command list generated by rsync_copy       *)
(*     (src/src/build_tools/bwraptools.py);                                *)
(*   - the fetch lock of the EasyBuild hooks                               *)
(*     (src/src/build_tools/hooks_hydra.py);                               *)
(*   - the toolchain generation of an easyconfig: calc_tc_gen_subdir and   *)
(*     the parse hook (src/src/build_tools/hooks_hydra.py);                *)
(*   - the selection of build hosts and the build loop of submit_build     *)
(*     (src/bin/submit_build.py, src/src/build_tools/clusters.py).         *)
(***************************************************************************)
EXTENDS Integers, Sequences, FiniteSets, TLC

(***************************************************************************)
(* Part 1: the job script.                                                 *)
(*                                                                         *)
(* The file system is abstracted to the paths the script names:            *)
(*   source_installdir  $softbwrap/$modversion/   (staged software dir)    *)
(*   dest_installdir    $softreal/$modversion/    (real software dir)      *)
(*   source_modfile     staged module file                                 *)
(*   source_modsymlink  staged module symlink                              *)
(*   dest_modfile       real module file                                   *)
(*   dest_modsymlink    published module symlink                           *)
(*   tempfile           the mktemp file used for the symlink swap          *)
(*   mod_filepath_file  <modversion>_fp.txt read by rsync_copy's commands  *)
(***************************************************************************)

VARIABLES
    variant,            \* "template": phase 2 of BUILD_JOB; "rsync_copy": the commands of rsync_copy
    bwrap,              \* ${bwrap} == 1
    pc,                 \* position of the script
    ec,                 \* exit code of the EasyBuild command ($ec), -1 before it ran
    exit_code,          \* exit code of the script, -1 while it runs
    out,                \* the BUILD_TOOLS / ERROR lines echoed so far
    source_installdir,  \* [exists, files]
    dest_installdir,    \* [Files -> content]
    source_modfile,
    source_modsymlink,
    dest_modfile,
    dest_modsymlink,
    tempfile,
    mod_filepath_file,
    ran,                \* phase-2 commands executed so far (history)
    failed,             \* phase-2 commands that returned non-zero (history)
    snap,               \* the file system when the EasyBuild command returned (history)
    runs,               \* number of times phase 2 was started
    softbwrap,          \* the staging directory $softbwrap exists
    sh_dest_mod_file,   \* rsync_copy: the shell variable $dest_mod_file ("" or "path")
    lmod_cache,         \* ${lmod_cache} == 1
    builds_succeeded,   \* EasyBuild's stderr has a 'BUILD_TOOLS: builds_succeeded' line
    lmod_submitted,     \* the Lmod cache job was submitted
    prev_moved          \* the previous run of phase 2 ended with its success message

jobvars == <<variant, bwrap, pc, ec, exit_code, out, source_installdir, dest_installdir,
             source_modfile, source_modsymlink, dest_modfile, dest_modsymlink, tempfile,
             mod_filepath_file, ran, failed, snap, runs, softbwrap, sh_dest_mod_file,
             lmod_cache, builds_succeeded, lmod_submitted, prev_moved>>

(***************************************************************************)
(* Part 2: the fetch lock (acquire_fetch_lock / release_fetch_lock), for   *)
(* build processes that fetch the sources of the same package, hence use   *)
(* the same lock file.  Time is counted in seconds.                        *)
(***************************************************************************)
VARIABLES
    lock,           \* the lock file: [holder, lease], lease the seconds left of its lifetime (-1: run out)
    lpc,            \* position of each build process
    wait_time,      \* acquire_fetch_lock's wait_time
    timer,          \* seconds until the running lock.lock() times out or time.sleep() returns
    attempts,       \* timed-out or running lock.lock() calls of the running acquire_fetch_lock (history)
    slept,          \* seconds slept by the running acquire_fetch_lock (history)
    held_for,       \* seconds since the process acquired the lock, up to wait_limit + 1 (history)
    same_hold,      \* the acquisition that held the lock when the process called
                    \* acquire_fetch_lock still holds it (history)
    fetches,        \* fetch steps started so far
    warned          \* release_fetch_lock logged its warning in the last release

lockvars == <<lock, lpc, wait_time, timer, attempts, slept, held_for, same_hold, fetches,
              warned>>

(***************************************************************************)
(* Part 3: the toolchain generation of an easyconfig (calc_tc_gen_subdir,  *)
(* update_moduleclass).                                                    *)
(***************************************************************************)
VARIABLES
    tc_versions,    \* the table returned by get_tc_versions(): generations in declaration order
    software,       \* the easyconfig: [name, version, tcname, tcversion, easyblock]
    hpc,            \* position of the parse hook: "idle", "parsed", "raised"
    moduleclass     \* ec['moduleclass']

classvars == <<tc_versions, software, hpc, moduleclass>>

(***************************************************************************)
(* Part 4: submit_build's main() up to the build loop, and the body of     *)
(* the build loop for one build host.                                      *)
(***************************************************************************)
VARIABLES
    opts,           \* opts.options and opts.args of the command line
    local_arch,     \* LOCAL_ARCH
    mpc,            \* position of main()
    arch_stack,     \* main's arch_stack
    partition_stack,\* main's partition_stack
    build_hosts,    \* main's build_hosts
    target_arch,    \* job['target_arch']
    job_tc_gen,     \* job['tc_gen']
    status,         \* exit status of submit_build
    raised,         \* the exception that ended main()
    logged,         \* messages logged with logger.error and logger.warning
    fetched,        \* the sources were fetched (eb --stop=fetch was run)
    jobs,           \* build jobs rendered and submitted
    lmod_jobs       \* partitions for which an Lmod cache job was submitted

mainvars == <<opts, local_arch, mpc, arch_stack, partition_stack, build_hosts, target_arch,
              job_tc_gen, status, raised, logged, fetched, jobs, lmod_jobs>>

VARIABLES
    host,           \* (host_arch, host_partition) of the iteration
    job,            \* the job dict: [target_arch, tmp]
    gpu,            \* opts.options.gpu
    job_options,    \* job_options: dict(job), then the options of the build job
    rest,           \* the build hosts that the for loop has still to visit
    tmp_option      \* "tmp": opts.options.tmp, "tmp_scratch": opts.options.tmp_scratch, or None

loopvars == <<host, job, gpu, job_options, rest, tmp_option>>

(* The functions of softinstall.py. *)
VARIABLES
    mk_args,        \* the arguments of mk_job_name: [easyconfig, host_arch, target_arch]
    mk_result,      \* the job name that mk_job_name returned
    spc,            \* position of the caller of softinstall.py: "idle", "named"
    installed,      \* the toolchains of which EasyBuild finds the easyconfig
    full_tcs,       \* SUPPORTED_FULL_TCS
    config_dict,    \* the easyconfig parsed by the last set_toolchain_generation
    user_tc_gen,    \* the tc_gen argument of the last set_toolchain_generation
    generation,     \* the value returned by the last set_toolchain_generation
    count,          \* calls of the two classifiers and builds of their tables (history)
    used            \* the tables that the calls of the two classifiers looked into (history)

softvars == <<mk_args, mk_result, spc, installed, full_tcs, config_dict, user_tc_gen,
              generation, count, used>>

(* Two build jobs that run at the same time on one file system. *)
VARIABLES
    key,            \* of each job: [arch, modname, modversion]
    fate,           \* of each job: what its EasyBuild and its rsync will do
    disk,           \* the file system: the content of each path
    disk0,          \* the file system before the jobs (history)
    rpc,            \* position of each job in its script
    rexit,          \* exit code of each job, -1 while it runs
    robbed,         \* the other job removed its staged install dir between its
                    \* preconditions and its rsync (history)
    overlapped      \* a job took a step while the other was in its script (history)

racevars == <<key, fate, disk, disk0, rpc, rexit, robbed, overlapped>>

toolvars == <<classvars, mainvars, loopvars, softvars, racevars>>

vars == <<jobvars, lockvars, toolvars>>

Files == {"bin", "lib"}

\* Largest non-zero exit code EasyBuild returns in the model.
MaxExitCode == 2

\* Largest number of times phase 2 is started on the same staging tree.
MaxRuns == 2

NoFiles == [f \in Files |-> "none"]

StagedDirs ==
    {[exists |-> FALSE, files |-> NoFiles]} \cup
    {[exists |-> TRUE, files |-> fs] : fs \in [Files -> {"none", "new"}]}

IsEmptyDir(dir) == \A f \in Files : dir.files[f] = "none"

FileSystem ==
    [source_installdir |-> source_installdir, dest_installdir |-> dest_installdir,
     source_modfile |-> source_modfile, source_modsymlink |-> source_modsymlink,
     dest_modfile |-> dest_modfile, dest_modsymlink |-> dest_modsymlink,
     mod_filepath_file |-> mod_filepath_file]

RealTree ==
    [dest_installdir |-> dest_installdir, dest_modfile |-> dest_modfile,
     dest_modsymlink |-> dest_modsymlink]

Staging ==
    [source_installdir |-> source_installdir, source_modfile |-> source_modfile,
     source_modsymlink |-> source_modsymlink, mod_filepath_file |-> mod_filepath_file]


\* The messages of the script.
MSG_EC2ML == "ERROR: ec2ml.py failed"
MSG_EB_NONZERO == "BUILD_TOOLS: EasyBuild exited with non-zero exit code"
MSG_NOTEXIST == "ERROR: source install dir does not exist"
MSG_EMPTY == "ERROR: source install dir is empty"
MSG_MODFILE == "ERROR: source module file does not exist or is empty"
MSG_SRCLINK == "ERROR: source module symlink does not link to correct file"
MSG_COPY == "ERROR: failed to copy install dir"
MSG_COPYMOD == "ERROR: failed to copy source module file"
MSG_DESTLINK == "ERROR: failed to create symlink to module file"
MSG_MOVED == "BUILD_TOOLS: installation moved from bwrap to real location"

PreconditionMsgs == {MSG_NOTEXIST, MSG_EMPTY, MSG_MODFILE, MSG_SRCLINK}

\* The synchronization commands of phase 2.
SyncCmds == {"rsync", "rsync_module", "cp", "ln", "mv", "rm"}

\* Previous installations a job can start from: none, or one whose module
\* symlink points to dest_modfile or to a module file of another generation.
PreviousInstalls ==
    {[dest_installdir |-> NoFiles, dest_modfile |-> "none", dest_modsymlink |-> "none"]} \cup
    {[dest_installdir |-> [f \in Files |-> "old"], dest_modfile |-> "old", dest_modsymlink |-> l] :
        l \in {"dest_modfile", "other"}}

JobInit ==
    /\ variant \in {"template", "rsync_copy"}
    /\ bwrap \in BOOLEAN
    /\ variant = "rsync_copy" => bwrap
    /\ pc = "start"
    /\ ec = -1
    /\ exit_code = -1
    /\ out = {}
    /\ source_installdir = [exists |-> FALSE, files |-> NoFiles]
    /\ source_modfile = "none"
    /\ source_modsymlink = "none"
    /\ mod_filepath_file = "none"
    /\ \E prev \in PreviousInstalls :
          /\ dest_installdir = prev.dest_installdir
          /\ dest_modfile = prev.dest_modfile
          /\ dest_modsymlink = prev.dest_modsymlink
    /\ tempfile = "none"
    /\ ran = {}
    /\ failed = {}
    /\ snap = FileSystem
    /\ runs = 0
    /\ softbwrap = FALSE
    /\ sh_dest_mod_file = ""
    /\ lmod_cache \in BOOLEAN
    /\ builds_succeeded = FALSE
    /\ lmod_submitted = FALSE
    /\ prev_moved = FALSE

\* exit N: the script stops with code N after echoing msg.
Exit(code, msg) ==
    /\ pc' = "done"
    /\ exit_code' = code
    /\ out' = out \cup {msg}

fsvars == <<source_installdir, dest_installdir, source_modfile, source_modsymlink,
            dest_modfile, dest_modsymlink, tempfile, mod_filepath_file>>
histvars == <<ran, failed, snap, runs, prev_moved>>
cfgvars == <<variant, bwrap, lmod_cache, lockvars, toolvars>>

(* Phase 1 of BUILD_JOB: module-name lookup with ec2ml.py. *)
Lookup ==
    /\ pc = "start" /\ variant = "template"
    /\ IF bwrap
         THEN \/ /\ pc' = "mkdir_stage"
                 /\ UNCHANGED <<exit_code, out>>
              \/ Exit(1, MSG_EC2ML)
         ELSE /\ pc' = "eb"
              /\ UNCHANGED <<exit_code, out>>
    /\ UNCHANGED <<ec, fsvars, histvars, cfgvars, softbwrap, sh_dest_mod_file,
                   builds_succeeded, lmod_submitted>>

(* Phase 1 of BUILD_JOB: mkdir -p "$softbwrap"; its status is not tested. *)
MkdirStage ==
    /\ pc = "mkdir_stage"
    /\ softbwrap' \in BOOLEAN
    /\ pc' = "eb"
    /\ UNCHANGED <<ec, exit_code, out, fsvars, histvars, cfgvars, sh_dest_mod_file,
                   builds_succeeded, lmod_submitted>>

(* bwrap_prefix: mkdir -p soft_source && mkdir -p mod_source && bwrap ...:    *)
(* a failing mkdir skips the build and its status is the command's status.    *)
BwrapPrefix ==
    /\ pc = "start" /\ variant = "rsync_copy"
    /\ \/ /\ softbwrap' = TRUE
          /\ pc' = "eb"
          /\ UNCHANGED <<ec, snap>>
       \/ /\ softbwrap' = FALSE
          /\ ec' = 1
          /\ snap' = FileSystem
          /\ pc' = "check_ec"
    /\ UNCHANGED <<exit_code, out, fsvars, ran, failed, runs, prev_moved, cfgvars,
                   sh_dest_mod_file, builds_succeeded, lmod_submitted>>

\* What a sandboxed EasyBuild run can leave in the staging tree.
StagedOutcomes ==
    [source_installdir : StagedDirs,
     source_modfile : {"none", "empty", "new"},
     source_modsymlink : IF variant = "template" THEN {"none", "ok", "wrong"} ELSE {"none"},
     mod_filepath_file : IF variant = "rsync_copy" THEN {"none", "path"} ELSE {"none"}]

(* The EasyBuild command, $EB ${easyconfig} ${eb_options}; ec=$?.  Inside     *)
(* the sandbox the writes to $softreal land in $softbwrap and the module      *)
(* file goes to the staging module tree; without it they land in the real     *)
(* tree.                                                                      *)
RunEasyBuild ==
    /\ pc = "eb"
    /\ pc' = "check_ec"
    /\ IF bwrap /\ ~softbwrap
         THEN \* bwrap cannot bind a missing directory
              /\ ec' \in 1..MaxExitCode
              /\ builds_succeeded' = FALSE
              /\ UNCHANGED fsvars
         ELSE /\ ec' \in 0..MaxExitCode
              /\ builds_succeeded' \in BOOLEAN
              /\ IF bwrap
                   THEN \E o \in StagedOutcomes :
                          /\ source_installdir' = o.source_installdir
                          /\ source_modfile' = o.source_modfile
                          /\ source_modsymlink' = o.source_modsymlink
                          /\ mod_filepath_file' = o.mod_filepath_file
                          /\ UNCHANGED <<dest_installdir, dest_modfile, dest_modsymlink, tempfile>>
                   ELSE IF ec' = 0
                          THEN /\ dest_installdir' = [f \in Files |-> "new"]
                               /\ dest_modfile' = "new"
                               /\ dest_modsymlink' = "dest_modfile"
                               /\ UNCHANGED <<source_installdir, source_modfile,
                                              source_modsymlink, tempfile, mod_filepath_file>>
                          ELSE UNCHANGED fsvars
    /\ snap' = FileSystem'
    /\ UNCHANGED <<exit_code, out, ran, failed, runs, prev_moved, cfgvars, softbwrap,
                   sh_dest_mod_file, lmod_submitted>>

\* A test that lets exit code 1 through.
EbFailed_GreaterThanOne(code) == code > 1

\* if [ $ec -ne 0 ]
EbFailed(code) == code # 0

(* if [ $ec -ne 0 ]; then ...; exit $ec; fi *)
CheckEc ==
    /\ pc = "check_ec"
    /\ IF EbFailed(ec)
         THEN Exit(ec, MSG_EB_NONZERO)
         ELSE /\ pc' = IF bwrap THEN "paths" ELSE "lmod"
              /\ UNCHANGED <<exit_code, out>>
    /\ UNCHANGED <<ec, fsvars, histvars, cfgvars, softbwrap, sh_dest_mod_file,
                   builds_succeeded, lmod_submitted>>

(***************************************************************************)
(* Phase 2: reconciliation of the staging tree with the real tree.         *)
(***************************************************************************)

\* A test that also fails on a directory without entries.
TestD_NonEmpty(dir) == dir.exists /\ ~IsEmptyDir(dir)

\* test -d "$source_installdir"
TestD(dir) == dir.exists

\* test -n "$(ls -A $source_installdir)"
LsA(dir) == ~IsEmptyDir(dir)

\* test -s "$source_modfile"
TestS(file) == file \notin {"none", "empty"}

\* test $(readlink "$source_modsymlink") == "$source_modfile"
SourceLinkOk(link) == link = "ok"

\* test $(readlink "$dest_modsymlink") == "$dest_modfile"
DestLinkOk(link) == link = "dest_modfile"

\* rsync -a --link-dest=src src dst, having transferred the files of `copied`:
\* files missing from src are left alone in dst (no --delete).
RsyncFiles(src, dst, copied) ==
    [f \in Files |-> IF f \in copied /\ src.files[f] # "none" THEN src.files[f] ELSE dst[f]]

Continue(next) ==
    /\ pc' = next
    /\ UNCHANGED <<exit_code, out>>

(* Lines 101-110 of BUILD_JOB set and echo the paths; line 100 of rsync_copy  *)
(* reads the path of the real module file from mod_filepath_file.             *)
Paths ==
    /\ pc = "paths"
    /\ runs' = runs + 1
    /\ sh_dest_mod_file' = IF variant = "rsync_copy" /\ mod_filepath_file = "path"
                             THEN "path" ELSE ""
    /\ Continue("pre_dir")
    /\ UNCHANGED <<ec, fsvars, ran, failed, snap, prev_moved, cfgvars, softbwrap,
                   builds_succeeded, lmod_submitted>>

(* test -d "$source_installdir" || { echo "ERROR: ... does not exist"; exit 1; } *)
PreDir ==
    /\ pc = "pre_dir"
    /\ IF TestD(source_installdir) THEN Continue("pre_empty") ELSE Exit(1, MSG_NOTEXIST)
    /\ UNCHANGED <<ec, fsvars, histvars, cfgvars, softbwrap, sh_dest_mod_file,
                   builds_succeeded, lmod_submitted>>

(* test -n "$(ls -A $source_installdir)" || { echo "ERROR: ... is empty"; exit 1; } *)
PreEmpty ==
    /\ pc = "pre_empty"
    /\ IF LsA(source_installdir) THEN Continue("pre_modfile") ELSE Exit(1, MSG_EMPTY)
    /\ UNCHANGED <<ec, fsvars, histvars, cfgvars, softbwrap, sh_dest_mod_file,
                   builds_succeeded, lmod_submitted>>

(* test -s "$source_modfile" || { echo "ERROR: source module file ..."; exit 1; } *)
PreModfile ==
    /\ pc = "pre_modfile"
    /\ IF TestS(source_modfile)
         THEN Continue(IF variant = "template" THEN "pre_symlink" ELSE "rsync")
         ELSE Exit(1, MSG_MODFILE)
    /\ UNCHANGED <<ec, fsvars, histvars, cfgvars, softbwrap, sh_dest_mod_file,
                   builds_succeeded, lmod_submitted>>

(* BUILD_JOB line 114: the staged symlink must point to the staged module file. *)
PreSymlink ==
    /\ pc = "pre_symlink"
    /\ IF SourceLinkOk(source_modsymlink) THEN Continue("mkdir_dest") ELSE Exit(1, MSG_SRCLINK)
    /\ UNCHANGED <<ec, fsvars, histvars, cfgvars, softbwrap, sh_dest_mod_file,
                   builds_succeeded, lmod_submitted>>

(* BUILD_JOB lines 115-116: mkdir -p of the module directories; mktemp. *)
MkdirDest ==
    /\ pc = "mkdir_dest"
    /\ tempfile' = "regular"
    /\ Continue("rsync")
    /\ UNCHANGED <<ec, source_installdir, dest_installdir, source_modfile, source_modsymlink,
                   dest_modfile, dest_modsymlink, mod_filepath_file, histvars, cfgvars,
                   softbwrap, sh_dest_mod_file, builds_succeeded, lmod_submitted>>

(* rsync -a --link-dest=... source dest || { echo "ERROR: failed to copy ..."; exit 1; } *)
(* A failing rsync may have transferred any part of the tree.                 *)
Rsync ==
    /\ pc = "rsync"
    /\ ran' = ran \cup {"rsync"}
    /\ \/ /\ dest_installdir' = RsyncFiles(source_installdir, dest_installdir, Files)
          /\ Continue(IF variant = "template" THEN "cp" ELSE "rsync_module")
          /\ UNCHANGED failed
       \/ /\ \E copied \in SUBSET Files :
                dest_installdir' = RsyncFiles(source_installdir, dest_installdir, copied)
          /\ failed' = failed \cup {"rsync"}
          /\ Exit(1, MSG_COPY)
    /\ UNCHANGED <<ec, source_installdir, source_modfile, source_modsymlink, dest_modfile,
                   dest_modsymlink, tempfile, mod_filepath_file, snap, runs, prev_moved,
                   cfgvars, softbwrap, sh_dest_mod_file, builds_succeeded, lmod_submitted>>

\* What the script does after cp -p returned `ok`: BUILD_JOB line 118 does not
\* test the status of cp.
AfterCp(ok) == Continue("ln")

(* cp -p "$source_modfile" "$dest_modfile"; a failing cp leaves the real      *)
(* module file as it was or partially written.                                *)
Cp ==
    /\ pc = "cp"
    /\ ran' = ran \cup {"cp"}
    /\ \/ /\ dest_modfile' = source_modfile
          /\ UNCHANGED failed
          /\ AfterCp(TRUE)
       \/ /\ dest_modfile' \in {dest_modfile, "partial"}
          /\ failed' = failed \cup {"cp"}
          /\ AfterCp(FALSE)
    /\ UNCHANGED <<ec, source_installdir, dest_installdir, source_modfile, source_modsymlink,
                   dest_modsymlink, tempfile, mod_filepath_file, snap, runs, prev_moved,
                   cfgvars, softbwrap, sh_dest_mod_file, builds_succeeded, lmod_submitted>>

(* ln -sf "$dest_modfile" "$tempfile": replaces the mktemp file by a symlink;  *)
(* its status is not tested.                                                  *)
Ln ==
    /\ pc = "ln"
    /\ ran' = ran \cup {"ln"}
    /\ \/ /\ tempfile' = "symlink"
          /\ UNCHANGED failed
       \/ /\ UNCHANGED tempfile
          /\ failed' = failed \cup {"ln"}
    /\ Continue("mv")
    /\ UNCHANGED <<ec, source_installdir, dest_installdir, source_modfile, source_modsymlink,
                   dest_modfile, dest_modsymlink, mod_filepath_file, snap, runs, prev_moved,
                   cfgvars, softbwrap, sh_dest_mod_file, builds_succeeded, lmod_submitted>>

\* The published path after mv -f "$tempfile" "$dest_modsymlink".
Renamed(temp) == IF temp = "symlink" THEN "dest_modfile" ELSE "regular"

(* mv -f "$tempfile" "$dest_modsymlink"; its status is not tested. *)
Mv ==
    /\ pc = "mv"
    /\ ran' = ran \cup {"mv"}
    /\ \/ /\ dest_modsymlink' = Renamed(tempfile)
          /\ tempfile' = "none"
          /\ UNCHANGED failed
       \/ /\ UNCHANGED <<dest_modsymlink, tempfile>>
          /\ failed' = failed \cup {"mv"}
    /\ Continue("test_link")
    /\ UNCHANGED <<ec, source_installdir, dest_installdir, source_modfile, source_modsymlink,
                   dest_modfile, mod_filepath_file, snap, runs, prev_moved,
                   cfgvars, softbwrap, sh_dest_mod_file, builds_succeeded, lmod_submitted>>

(* test $(readlink "$dest_modsymlink") == "$dest_modfile" || { ...; exit 1; } *)
TestLink ==
    /\ pc = "test_link"
    /\ IF DestLinkOk(dest_modsymlink) THEN Continue("rm") ELSE Exit(1, MSG_DESTLINK)
    /\ UNCHANGED <<ec, fsvars, histvars, cfgvars, softbwrap, sh_dest_mod_file,
                   builds_succeeded, lmod_submitted>>

(* rsync_copy line 109: rsync -a --link-dest=... source_mod_file              *)
(* "$dest_mod_file" || { ...; exit 1; }.  rsync writes a temporary file and   *)
(* renames it, so a failing rsync leaves the real module file as it was; an   *)
(* empty $dest_mod_file makes it fail.                                        *)
RsyncModule ==
    /\ pc = "rsync_module"
    /\ ran' = ran \cup {"rsync_module"}
    /\ \/ /\ sh_dest_mod_file # ""
          /\ dest_modfile' = source_modfile
          /\ UNCHANGED failed
          /\ Continue("rm")
       \/ /\ UNCHANGED dest_modfile
          /\ failed' = failed \cup {"rsync_module"}
          /\ Exit(1, MSG_COPYMOD)
    /\ UNCHANGED <<ec, source_installdir, dest_installdir, source_modfile, source_modsymlink,
                   dest_modsymlink, tempfile, mod_filepath_file, snap, runs, prev_moved,
                   cfgvars, softbwrap, sh_dest_mod_file, builds_succeeded, lmod_submitted>>

\* A removal of the directory's entries that keeps the directory.
RmInstalldir_ContentsOnly(dir) == [exists |-> dir.exists, files |-> NoFiles]

\* The staged software directory after the rm -rf of phase 2.
RmInstalldir(dir) == [exists |-> FALSE, files |-> NoFiles]

(* BUILD_JOB lines 122-123: rm -rf "$source_installdir" "$source_modfile"     *)
(* "$source_modsymlink"; echo "... moved ...".  rsync_copy line 110: rm -rf   *)
(* source_soft_path source_mod_file mod_filepath_file.                        *)
Rm ==
    /\ pc = "rm"
    /\ ran' = ran \cup {"rm"}
    /\ source_installdir' = RmInstalldir(source_installdir)
    /\ source_modfile' = "none"
    /\ source_modsymlink' = "none"
    /\ mod_filepath_file' = "none"
    /\ pc' = "lmod"
    /\ out' = out \cup {MSG_MOVED}
    /\ UNCHANGED <<ec, exit_code, dest_installdir, dest_modfile, dest_modsymlink, tempfile,
                   failed, snap, runs, prev_moved, cfgvars, softbwrap, sh_dest_mod_file,
                   builds_succeeded, lmod_submitted>>

(* BUILD_JOB lines 126-145: submit the Lmod cache job; the status of the      *)
(* script is the status of its last command.                                  *)
LmodCache ==
    /\ pc = "lmod"
    /\ pc' = "done"
    /\ IF lmod_cache /\ builds_succeeded
         THEN \/ lmod_submitted' = TRUE /\ exit_code' = 0
              \/ lmod_submitted' = FALSE /\ exit_code' = 1
         ELSE /\ exit_code' = 0
              /\ UNCHANGED lmod_submitted
    /\ UNCHANGED <<ec, out, fsvars, histvars, cfgvars, softbwrap, sh_dest_mod_file,
                   builds_succeeded>>

(* Phase 2 run again on the staging tree a finished job left.                 *)
RerunPhase2 ==
    /\ pc = "done"
    /\ bwrap /\ ec = 0
    /\ runs >= 1 /\ runs < MaxRuns
    /\ prev_moved' = (MSG_MOVED \in out)
    /\ pc' = "paths"
    /\ exit_code' = -1
    /\ out' = {}
    /\ snap' = FileSystem
    /\ ran' = {}
    /\ failed' = {}
    /\ UNCHANGED <<ec, fsvars, runs, cfgvars, softbwrap, sh_dest_mod_file,
                   builds_succeeded, lmod_submitted>>

(***************************************************************************)
(* The fetch lock.                                                         *)
(***************************************************************************)

\* The build processes contending for one lock file.
Procs == {"build1", "build2"}

\* Largest number of fetch steps the build processes start on the lock file.
MaxFetches == 3

\* acquire_fetch_lock: wait_interval = 60
wait_interval == 60

\* acquire_fetch_lock: wait_limit = 3600
wait_limit == 3600

\* Lock(..., default_timeout=1)
default_timeout == 1

\* A lease as short as the poll interval.
lifetime_OfInterval == wait_interval

\* A lease twice as long as the longest wait.
lifetime_Twice == 2 * wait_limit

\* Lock(..., lifetime=wait_limit)
lifetime == wait_limit

Nobody == "nobody"

LockInit ==
    /\ lock = [holder |-> Nobody, lease |-> -1]
    /\ lpc = [p \in Procs |-> "idle"]
    /\ wait_time = [p \in Procs |-> 0]
    /\ timer = [p \in Procs |-> 0]
    /\ attempts = [p \in Procs |-> 0]
    /\ slept = [p \in Procs |-> 0]
    /\ held_for = [p \in Procs |-> 0]
    /\ same_hold = [p \in Procs |-> FALSE]
    /\ fetches = 0
    /\ warned = [p \in Procs |-> FALSE]

\* The lifetime of the lock file has run out.
Expired == lock.lease < 0

\* lock.lock() can take the lock file: nobody holds it, or the holder's lease
\* has run out and the lock is broken.
CanTake(p) == lock.holder = Nobody \/ (lock.holder # p /\ Expired)

\* lock.lock() succeeded; "[pre-fetch hook] Lock acquired"; break: the
\* function returns and its locals are gone.
Acquire(p) ==
    /\ lock' = [holder |-> p, lease |-> lifetime]
    /\ held_for' = [held_for EXCEPT ![p] = 0]
    /\ same_hold' = [q \in Procs |-> FALSE]
    /\ lpc' = [lpc EXCEPT ![p] = "fetching"]
    /\ timer' = [timer EXCEPT ![p] = 0]
    /\ wait_time' = [wait_time EXCEPT ![p] = 0]
    /\ slept' = [slept EXCEPT ![p] = 0]

(* pre_fetch_hook: acquire_fetch_lock up to the loop. *)
CallAcquire(p) ==
    /\ lpc[p] \in {"idle", "released"}
    /\ fetches < MaxFetches
    /\ fetches' = fetches + 1
    /\ lpc' = [lpc EXCEPT ![p] = "try"]
    /\ wait_time' = [wait_time EXCEPT ![p] = 0]
    /\ attempts' = [attempts EXCEPT ![p] = 0]
    /\ slept' = [slept EXCEPT ![p] = 0]
    /\ warned' = [warned EXCEPT ![p] = FALSE]
    /\ same_hold' = [same_hold EXCEPT ![p] = lock.holder # Nobody]
    /\ UNCHANGED <<lock, timer, held_for, jobvars, toolvars>>

(* lock.lock() is called: it takes a free or expired lock at once, and        *)
(* otherwise keeps trying until default_timeout has passed.                   *)
LockCall(p) ==
    /\ lpc[p] = "try"
    /\ IF CanTake(p)
         THEN /\ Acquire(p)
              /\ attempts' = [attempts EXCEPT ![p] = 0]
         ELSE /\ lpc' = [lpc EXCEPT ![p] = "locking"]
              /\ timer' = [timer EXCEPT ![p] = default_timeout]
              /\ attempts' = [attempts EXCEPT ![p] = @ + 1]
              /\ UNCHANGED <<lock, held_for, same_hold, wait_time, slept>>
    /\ UNCHANGED <<fetches, warned, jobvars, toolvars>>

(* The running lock.lock() finds the lock released or expired. *)
LockWait(p) ==
    /\ lpc[p] = "locking"
    /\ CanTake(p)
    /\ Acquire(p)
    /\ attempts' = [attempts EXCEPT ![p] = 0]
    /\ UNCHANGED <<fetches, warned, jobvars, toolvars>>

\* A test that lets a wait of exactly wait_limit go on.
MaxWaitReached_Strict(w) == w > wait_limit

\* if wait_time >= wait_limit
MaxWaitReached(w) == w >= wait_limit

(* except TimeOutError: raise EasyBuildError at the limit, else sleep. *)
LockTimeout(p) ==
    /\ lpc[p] = "locking"
    /\ timer[p] = 0
    /\ IF MaxWaitReached(wait_time[p])
         THEN /\ lpc' = [lpc EXCEPT ![p] = "aborted"]
              /\ UNCHANGED timer
         ELSE /\ lpc' = [lpc EXCEPT ![p] = "sleeping"]
              /\ timer' = [timer EXCEPT ![p] = wait_interval]
    /\ UNCHANGED <<lock, wait_time, attempts, slept, held_for, same_hold, fetches, warned,
                   jobvars, toolvars>>

(* time.sleep(wait_interval) returns; wait_time += wait_interval. *)
Wake(p) ==
    /\ lpc[p] = "sleeping"
    /\ timer[p] = 0
    /\ wait_time' = [wait_time EXCEPT ![p] = @ + wait_interval]
    /\ slept' = [slept EXCEPT ![p] = @ + wait_interval]
    /\ lpc' = [lpc EXCEPT ![p] = "try"]
    /\ UNCHANGED <<lock, timer, attempts, held_for, same_hold, fetches, warned, jobvars, toolvars>>

\* What lock.unlock() raises for process p.
Unlock(p) == IF lock.holder = p THEN "none" ELSE "NotLockedError"

\* An except clause for another exception class.
Caught_TimeOutError(exc) == exc = "TimeOutError"

\* except NotLockedError
Caught(exc) == exc = "NotLockedError"

(* post_fetch_hook: release_fetch_lock. *)
Release(p) ==
    /\ lpc[p] = "fetching"
    /\ LET exc == Unlock(p) IN
         IF exc = "none"
           THEN /\ lock' = [holder |-> Nobody, lease |-> -1]
                /\ same_hold' = [q \in Procs |-> FALSE]
                /\ lpc' = [lpc EXCEPT ![p] = "released"]
                /\ UNCHANGED warned
           ELSE IF Caught(exc)
                  THEN /\ warned' = [warned EXCEPT ![p] = TRUE]
                       /\ lpc' = [lpc EXCEPT ![p] = "released"]
                       /\ UNCHANGED <<lock, same_hold>>
                  ELSE /\ lpc' = [lpc EXCEPT ![p] = "raised"]
                       /\ UNCHANGED <<lock, same_hold, warned>>
    /\ held_for' = [held_for EXCEPT ![p] = 0]
    /\ UNCHANGED <<wait_time, timer, attempts, slept, fetches, jobvars, toolvars>>

\* The process is inside lock.lock() or time.sleep().
Timed(p) == lpc[p] \in {"locking", "sleeping"}

\* A process has a step to take at the present instant.
Urgent(p) ==
    \/ lpc[p] = "try"
    \/ lpc[p] = "locking" /\ CanTake(p)
    \/ Timed(p) /\ timer[p] = 0

\* The delays after which something can change.
Deadlines ==
    {timer[p] : p \in {q \in Procs : Timed(q)}} \cup
    (IF lock.holder # Nobody /\ ~Expired THEN {lock.lease + 1} ELSE {})

Min(S) == CHOOSE x \in S : \A y \in S : x <= y

(* Time passes until the next deadline. *)
Tick ==
    /\ \A p \in Procs : ~Urgent(p)
    /\ Deadlines # {}
    /\ LET d == Min(Deadlines) IN
         /\ timer' = [p \in Procs |-> IF Timed(p) THEN timer[p] - d ELSE timer[p]]
         /\ lock' = IF lock.holder # Nobody /\ ~Expired
                      THEN [lock EXCEPT !.lease = @ - d]
                      ELSE lock
         /\ held_for' = [p \in Procs |->
                           IF lpc[p] = "fetching" /\ held_for[p] + d <= wait_limit
                             THEN held_for[p] + d
                             ELSE IF lpc[p] = "fetching" THEN wait_limit + 1 ELSE held_for[p]]
    /\ UNCHANGED <<lpc, wait_time, attempts, slept, same_hold, fetches, warned, jobvars, toolvars>>

(***************************************************************************)
(* Part 3: calc_tc_gen_subdir and the parse hook.                          *)
(*                                                                         *)
(* get_tc_versions() builds, for every generation of VALID_TOOLCHAINS in   *)
(* its declaration order, the list of {name, version} dicts of the         *)
(* toolchain hierarchies that EasyBuild finds, and the generation's        *)
(* subdir.  The hierarchies depend on the easyconfigs that are installed,  *)
(* hence the table is an input here.                                       *)
(***************************************************************************)

\* Python's None and False.
None == "None"
False == "False"

\* Keys and subdirs of the generations a table is built from.
Generations == {"2024a", "25.1"}
Subdirs == {"2024a", "25.1"}

\* {name, version} dicts that get_toolchain_hierarchy() can return.
ToolchainPairs ==
    {[name |-> "GCCcore", version |-> "13.3.0"], [name |-> "foss", version |-> "2024a"]}

TcgenSpecs == [gen : Generations, toolchains : SUBSET ToolchainPairs, subdir : Subdirs]

\* The tables: at most one entry per generation, in any declaration order.
Tables ==
    {<<>>} \cup {<<s>> : s \in TcgenSpecs}
           \cup {<<s, t>> : <<s, t>> \in {x \in TcgenSpecs \X TcgenSpecs : x[1].gen # x[2].gen}}

Easyblocks == {"Toolchain", "ConfigureMake"}

\* The easyconfigs: (name, version, tcname, tcversion, easyblock).
Softwares ==
    {[name |-> nv.name, version |-> nv.version, tcname |-> tc.name, tcversion |-> tc.version,
      easyblock |-> eb] :
        nv \in ToolchainPairs \cup {[name |-> "zlib", version |-> "1.3.1"],
                                    [name |-> "fosscuda", version |-> "2023a"]},
        tc \in ToolchainPairs \cup {[name |-> "system", version |-> "system"],
                                    [name |-> "fosscuda", version |-> "2022a"]},
        eb \in Easyblocks}

\* name_version = {'name': name, 'version': version}
name_version(sw) == [name |-> sw.name, version |-> sw.version]

\* toolchain = {'name': tcname, 'version': tcversion}
toolchain(sw) == [name |-> sw.tcname, version |-> sw.tcversion]

\* Mutation of IsValidCombination: the software's own name and version are not looked up.
IsValidCombination_ToolchainOnly(sw, tcgen_spec) == toolchain(sw) \in tcgen_spec.toolchains

\* toolchain in tcgen_spec['toolchains'] or name_version in tcgen_spec['toolchains']
IsValidCombination(sw, tcgen_spec) ==
    \/ toolchain(sw) \in tcgen_spec.toolchains
    \/ name_version(sw) \in tcgen_spec.toolchains

\* Mutation of items: the generations are visited from the last declared to the first.
items_Reversed(table) == [i \in 1..Len(table) |-> table[Len(table) + 1 - i]]

\* tc_versions.items(): the entries of the dict in insertion order.
items(table) == table

\* The for loop of calc_tc_gen_subdir from entry i on: the subdir of the first
\* generation with a valid combination, None when the loop ends without return.
RECURSIVE FirstValid(_, _, _)
FirstValid(sw, entries, i) ==
    IF i > Len(entries) THEN None
    ELSE IF IsValidCombination(sw, entries[i]) THEN entries[i].subdir
    ELSE FirstValid(sw, entries, i + 1)

\* Mutation of IsToolchain: no easyblock is taken for a toolchain definition.
IsToolchain_Never(easyblock) == FALSE

\* easyblock == 'Toolchain'
IsToolchain(easyblock) == easyblock = "Toolchain"

\* Mutation of IsSystem: the system toolchain is not recognised.
IsSystem_Never(tcname) == FALSE

\* tcname == 'system'
IsSystem(tcname) == tcname = "system"

\* Mutation of tc_gen_subdir: a toolchain definition on another toolchain than
\* 'system' fails before the membership loop.
tc_gen_subdir_ToolchainFirst(sw, table) ==
    IF IsToolchain(sw.easyblock) /\ ~IsSystem(sw.tcname) THEN False
    ELSE LET tcgen_subdir == FirstValid(sw, items(table), 1) IN
           IF tcgen_subdir # None THEN tcgen_subdir
           ELSE IF IsToolchain(sw.easyblock) THEN False
           ELSE IF IsSystem(sw.tcname) THEN "system"
           ELSE False

\* calc_tc_gen_subdir on a given table (the first component of its result).
tc_gen_subdir(sw, table) ==
    LET tcgen_subdir == FirstValid(sw, items(table), 1) IN
      IF tcgen_subdir # None THEN tcgen_subdir
      ELSE IF IsToolchain(sw.easyblock) THEN False
      ELSE IF IsSystem(sw.tcname) THEN "system"
      ELSE False

get_tc_versions == tc_versions

calc_tc_gen_subdir(sw) == tc_gen_subdir(sw, get_tc_versions)

\* The moduleclass of the easyconfig before the parse hook.
Moduleclass == <<"tools">>

ClassInit ==
    /\ tc_versions \in Tables
    /\ software \in Softwares
    /\ hpc = "idle"
    /\ moduleclass = Moduleclass

\* Mutation of NotTcGen: the result of the classification is not tested.
NotTcGen_Ignored(tc_gen) == FALSE

\* not tc_gen
NotTcGen(tc_gen) == tc_gen = False

(* parse_hook: update_moduleclass(ec). *)
update_moduleclass ==
    /\ hpc = "idle"
    /\ LET tc_gen == calc_tc_gen_subdir(software) IN
         IF NotTcGen(tc_gen)
           THEN \* raise EasyBuildError("[parse hook] " + log_msg)
                /\ hpc' = "raised"
                /\ UNCHANGED moduleclass
           ELSE \* ec['moduleclass'] = os.path.join(tc_gen, SUFFIX_MODULES_SYMLINK)
                /\ hpc' = "parsed"
                /\ moduleclass' = <<tc_gen, "all">>
    /\ UNCHANGED <<tc_versions, software, mainvars, loopvars, softvars, jobvars, lockvars, racevars>>

(***************************************************************************)
(* Part 4: submit_build.                                                   *)
(***************************************************************************)

\* clusters.py: ARCHS
ARCHS ==
    [a \in {"broadwell", "haswell-ib", "skylake", "skylake-ib", "zen2-ib", "zen3", "zen3-ib",
            "zen4"} |->
       CASE a = "broadwell"  -> [default |-> TRUE, opt |-> "mavx2",
                                 partition |-> [cpu |-> "pascal_gpu", gpu |-> "pascal_gpu"]]
         [] a = "haswell-ib" -> [default |-> FALSE, opt |-> "mavx2",
                                 partition |-> [cpu |-> "haswell_mpi", gpu |-> None]]
         [] a = "skylake"    -> [default |-> TRUE, opt |-> "mavx512",
                                 partition |-> [cpu |-> "skylake", gpu |-> None]]
         [] a = "skylake-ib" -> [default |-> TRUE, opt |-> "mavx512",
                                 partition |-> [cpu |-> "skylake_mpi", gpu |-> None]]
         [] a = "zen2-ib"    -> [default |-> TRUE, opt |-> "Intel:march=core-avx2;GCC:mavx2",
                                 partition |-> [cpu |-> "ampere_gpu", gpu |-> "ampere_gpu"]]
         [] a = "zen3"       -> [default |-> FALSE, opt |-> "Intel:march=core-avx2;GCC:mavx2",
                                 partition |-> [cpu |-> "zen3", gpu |-> None]]
         [] a = "zen3-ib"    -> [default |-> FALSE, opt |-> "Intel:march=core-avx2;GCC:mavx2",
                                 partition |-> [cpu |-> "zen3_mpi", gpu |-> None]]
         [] a = "zen4"       -> [default |-> TRUE, opt |-> "Intel:march=rocketlake;GCC:znver4",
                                 partition |-> [cpu |-> "zen4", gpu |-> None]]]

\* Mutation of PARTITIONS: the partition zen4 names an arch that ARCHS does not have.
PARTITIONS_Dangling ==
    [p \in {"ampere_gpu", "haswell_mpi", "pascal_gpu", "skylake", "skylake_mpi", "zen3",
            "zen3_mpi", "zen4"} |->
       CASE p = "ampere_gpu"  -> [cluster |-> "hydra", arch |-> "zen2-ib"]
         [] p = "haswell_mpi" -> [cluster |-> "chimera", arch |-> "haswell-ib"]
         [] p = "pascal_gpu"  -> [cluster |-> "hydra", arch |-> "broadwell"]
         [] p = "skylake"     -> [cluster |-> "hydra", arch |-> "skylake"]
         [] p = "skylake_mpi" -> [cluster |-> "hydra", arch |-> "skylake-ib"]
         [] p = "zen3"        -> [cluster |-> "manticore", arch |-> "zen3"]
         [] p = "zen3_mpi"    -> [cluster |-> "manticore", arch |-> "zen3-ib"]
         [] p = "zen4"        -> [cluster |-> "hydra", arch |-> "zen5"]]

\* clusters.py: PARTITIONS
PARTITIONS ==
    [p \in {"ampere_gpu", "haswell_mpi", "pascal_gpu", "skylake", "skylake_mpi", "zen3",
            "zen3_mpi", "zen4"} |->
       CASE p = "ampere_gpu"  -> [cluster |-> "hydra", arch |-> "zen2-ib"]
         [] p = "haswell_mpi" -> [cluster |-> "chimera", arch |-> "haswell-ib"]
         [] p = "pascal_gpu"  -> [cluster |-> "hydra", arch |-> "broadwell"]
         [] p = "skylake"     -> [cluster |-> "hydra", arch |-> "skylake"]
         [] p = "skylake_mpi" -> [cluster |-> "hydra", arch |-> "skylake-ib"]
         [] p = "zen3"        -> [cluster |-> "manticore", arch |-> "zen3"]
         [] p = "zen3_mpi"    -> [cluster |-> "manticore", arch |-> "zen3-ib"]
         [] p = "zen4"        -> [cluster |-> "hydra", arch |-> "zen4"]]

\* DEFAULT_ARCHS = [arch for (arch, prop) in ARCHS.items() if prop['default']]
DEFAULT_ARCHS == <<"broadwell", "skylake", "skylake-ib", "zen2-ib", "zen4">>

\* Names given on the command line; "nosuch" is no key of ARCHS or PARTITIONS.
CmdArchs == {"broadwell", "skylake", "nosuch"}
CmdPartitions == {"pascal_gpu", "skylake", "nosuch"}

\* Lists of at most two names.
Lists(S) == {<<>>} \cup {<<x>> : x \in S} \cup {<<x, y>> : <<x, y>> \in S \X S}

\* The command lines: an option that is not given is the empty list, None or FALSE.
CommandLines ==
    [arch : Lists(CmdArchs), partition : Lists(CmdPartitions),
     cross_compile : {None, "zen4", "nosuch"},
     local : BOOLEAN, lmod_cache_only : BOOLEAN, args : BOOLEAN]

\* Messages of logger.error and logger.warning.
MSG_NO_EASYCONFIG == "No easyconfig is given..."
MSG_UNKNOWN_ARCHS == "Unknown archs"
MSG_OVERWRITING == "Overwriting given architectures with the architectures of given partitions"
MSG_CROSS_HOSTS == "Cross-compilation only supports 1 build architecture (--arch)"
MSG_UNKNOWN_TARGET == "Unknown target arch"
MSG_NO_GENERATION == "Unable to determine the toolchain generation, specify it with --toolchain"
MSG_LMOD_SUBMIT == "Failed to submit Lmod cache job"
MSG_BUILD_SUBMIT == "Failed to submit or run build job"

\* The exit status while submit_build is running.
Running == -1

\* main() before its first statement.
MainStart ==
    /\ mpc = "options"
    /\ arch_stack = <<>>
    /\ partition_stack = <<>>
    /\ build_hosts = {}
    /\ target_arch = None
    /\ job_tc_gen = None
    /\ status = Running
    /\ raised = None
    /\ logged = {}
    /\ fetched = FALSE
    /\ jobs = {}
    /\ lmod_jobs = {}

MainInit ==
    /\ opts \in CommandLines
    /\ local_arch \in {"broadwell", "skylake"}
    /\ MainStart

\* sys.exit(code) after logger.error(msg)
SysExit(code, msg) ==
    /\ mpc' = "done"
    /\ status' = code
    /\ logged' = logged \cup {msg}

\* An exception that nothing catches: traceback, exit status 1.
Raise(exc) ==
    /\ mpc' = "done"
    /\ status' = 1
    /\ raised' = exc

\* arch not in ARCHS
NotInARCHS(a) == a \notin DOMAIN ARCHS

\* part in PARTITIONS
InPARTITIONS(p) == p \in DOMAIN PARTITIONS

(* main(), lines 110-125: --lmod-cache-only and the easyconfig argument. *)
Options ==
    /\ mpc = "options"
    /\ IF opts.lmod_cache_only
         THEN \* submit_lmod_cache_job for the default archs, in order, up to a failed submission
              \E n \in 0..Len(DEFAULT_ARCHS) :
                /\ lmod_jobs' = {ARCHS[DEFAULT_ARCHS[i]].partition.cpu : i \in 1..n}
                /\ IF n = Len(DEFAULT_ARCHS)
                     THEN mpc' = "done" /\ status' = 0 /\ UNCHANGED logged
                     ELSE SysExit(1, MSG_LMOD_SUBMIT)
         ELSE /\ IF ~opts.args
                   THEN SysExit(1, MSG_NO_EASYCONFIG)
                   ELSE mpc' = "archs" /\ UNCHANGED <<status, logged>>
              /\ UNCHANGED lmod_jobs
    /\ UNCHANGED <<opts, local_arch, arch_stack, partition_stack, build_hosts, target_arch,
                   job_tc_gen, raised, fetched, jobs>>
    /\ UNCHANGED <<classvars, loopvars, softvars, jobvars, lockvars, racevars>>

(* main(), lines 127-141: the host archs. *)
SetHostArchs ==
    /\ mpc = "archs"
    /\ IF opts.local
         THEN /\ arch_stack' = <<local_arch>>
              /\ mpc' = "partitions"
              /\ UNCHANGED <<status, logged>>
         ELSE IF opts.arch # <<>>
           THEN /\ arch_stack' = opts.arch
                /\ IF SelectSeq(opts.arch, NotInARCHS) # <<>>
                     THEN SysExit(1, MSG_UNKNOWN_ARCHS)
                     ELSE mpc' = "partitions" /\ UNCHANGED <<status, logged>>
           ELSE /\ arch_stack' = DEFAULT_ARCHS
                /\ mpc' = "partitions"
                /\ UNCHANGED <<status, logged>>
    /\ UNCHANGED <<opts, local_arch, partition_stack, build_hosts, target_arch, job_tc_gen,
                   raised, fetched, jobs, lmod_jobs>>
    /\ UNCHANGED <<classvars, loopvars, softvars, jobvars, lockvars, racevars>>

\* The truth value of a name: None and the empty string are false.
Truthy(x) == x # None /\ x # ""

\* {(arch, part) for (arch, part) in build_hosts if arch and part}
CleanUp(hosts) ==
    {hosts[i] : i \in {j \in 1..Len(hosts) : Truthy(hosts[j][1]) /\ Truthy(hosts[j][2])}}

\* [(arch, ARCHS[arch]['partition']['cpu']) for arch in arch_stack]
DefaultCpuHosts(archs) == [i \in 1..Len(archs) |-> <<archs[i], ARCHS[archs[i]].partition.cpu>>]

(* main(), lines 143-159: the partitions and the build hosts.  The items of   *)
(* partition_stack are partition names, and part['arch'] subscripts such a    *)
(* name (a str) with a str: TypeError as soon as partition_stack has an item. *)
SetPartitions ==
    /\ mpc = "partitions"
    /\ IF opts.partition # <<>>
         THEN /\ partition_stack' = SelectSeq(opts.partition, InPARTITIONS)
              /\ logged' = IF opts.arch # <<>> THEN logged \cup {MSG_OVERWRITING} ELSE logged
              /\ IF partition_stack' # <<>>
                   THEN Raise("TypeError") /\ UNCHANGED <<arch_stack, build_hosts>>
                   ELSE /\ arch_stack' = <<>>
                        /\ build_hosts' = CleanUp(<<>>)
                        /\ mpc' = "cross"
                        /\ UNCHANGED <<status, raised>>
         ELSE /\ build_hosts' = CleanUp(DefaultCpuHosts(arch_stack))
              /\ mpc' = "cross"
              /\ UNCHANGED <<arch_stack, partition_stack, status, raised, logged>>
    /\ UNCHANGED <<opts, local_arch, target_arch, job_tc_gen, fetched, jobs, lmod_jobs>>
    /\ UNCHANGED <<classvars, loopvars, softvars, jobvars, lockvars, racevars>>

(* main(), lines 161-170: cross compilation.  The test of the number of *)
(* build hosts logs its error and goes on.                               *)
CrossCompile ==
    /\ mpc = "cross"
    /\ IF opts.cross_compile # None
         THEN LET log == IF Cardinality(build_hosts) > 1
                           THEN logged \cup {MSG_CROSS_HOSTS} ELSE logged IN
                IF opts.cross_compile \notin DOMAIN ARCHS
                  THEN /\ mpc' = "done"
                       /\ status' = 1
                       /\ logged' = log \cup {MSG_UNKNOWN_TARGET}
                       /\ UNCHANGED target_arch
                  ELSE /\ target_arch' = opts.cross_compile
                       /\ logged' = log
                       /\ mpc' = "tc_gen"
                       /\ UNCHANGED status
         ELSE mpc' = "tc_gen" /\ UNCHANGED <<target_arch, status, logged>>
    /\ UNCHANGED <<opts, local_arch, arch_stack, partition_stack, build_hosts, job_tc_gen,
                   raised, fetched, jobs, lmod_jobs>>
    /\ UNCHANGED <<classvars, loopvars, softvars, jobvars, lockvars, racevars>>

\* softinstall.py: def set_toolchain_generation(easyconfig, tc_gen=None)
Parameters == {"easyconfig", "tc_gen"}

\* submit_build.py: set_toolchain_generation(easyconfig, user_toolchain=opts.options.toolchain)
Keywords == {"user_toolchain"}

\* The elements of a list.
Elements(list) == {list[i] : i \in DOMAIN list}

\* softinstall.py: SUPPORTED_TCGENS
SUPPORTED_TCGENS == <<"2022a", "2023a">>

(* main(), lines 176-182: the toolchain generation.  The call names a        *)
(* keyword that set_toolchain_generation does not have: TypeError.  With a   *)
(* call that binds, the function returns a supported generation or False.    *)
SetToolchainGeneration ==
    /\ mpc = "tc_gen"
    /\ IF ~(Keywords \subseteq Parameters)
         THEN Raise("TypeError") /\ UNCHANGED <<job_tc_gen, logged>>
         ELSE \E g \in Elements(SUPPORTED_TCGENS) \cup {False} :
                /\ job_tc_gen' = g
                /\ raised' = raised
                /\ IF NotTcGen(g)
                     THEN SysExit(1, MSG_NO_GENERATION)
                     ELSE mpc' = "fetch" /\ UNCHANGED <<status, logged>>
    /\ UNCHANGED <<opts, local_arch, arch_stack, partition_stack, build_hosts, target_arch,
                   fetched, jobs, lmod_jobs>>
    /\ UNCHANGED <<classvars, loopvars, softvars, jobvars, lockvars, racevars>>

(***************************************************************************)
(* The body of the build loop of main() (lines 240-340) for one build      *)
(* host.  Of job_options the model keeps the fields that place the job.    *)
(***************************************************************************)

\* The easyconfig given on the command line.
Easyconfig == <<"z", ".", "e", "b">>

\* os.path.basename(path): the characters after the last '/'.
RECURSIVE basename(_)
basename(path) ==
    IF path = <<>> THEN <<>>
    ELSE IF path[Len(path)] = "/" THEN <<>>
    ELSE basename(SubSeq(path, 1, Len(path) - 1)) \o <<path[Len(path)]>>

\* The pattern '.eb$' matches at the end of the string: any character, then 'eb'.
Matches(string) ==
    /\ Len(string) >= 3
    /\ string[Len(string) - 1] = "e"
    /\ string[Len(string)] = "b"

\* re.sub('.eb$', '', string)
sub(string) ==
    IF Matches(string) THEN SubSeq(string, 1, Len(string) - 3) ELSE string

\* softinstall.py: mk_job_name; a name is the sequence of its characters, an
\* arch is one element of it.
mk_job_name(easyconfig, host_arch, target) ==
    LET job_name == sub(basename(easyconfig)) \o
                      (IF Truthy(host_arch) THEN <<"-", host_arch>> ELSE <<>>) IN
      IF Truthy(target) /\ target # host_arch THEN job_name \o <<"-", target>> ELSE job_name

\* The characters of the easyconfig paths and their greatest length.
Characters == {"z", ".", "e", "b", "/"}
MaxPathLen == 4

EasyconfigPaths == UNION {[1..n -> Characters] : n \in 0..MaxPathLen}

\* The archs given to mk_job_name.
NameArchs == {None, "skylake", "zen4"}

\* No classifier has been called.
GenStart ==
    /\ full_tcs = <<>>
    /\ config_dict = [name |-> "zlib", version |-> "1.2.11", tcname |-> "system",
                      tcversion |-> "system", easyblock |-> "ConfigureMake"]
    /\ user_tc_gen = None
    /\ generation = None
    /\ count = [soft_calls |-> 0, soft_builds |-> 0, hook_calls |-> 0, hook_builds |-> 0]
    /\ used = [soft |-> {}, hook |-> {}]

GenQuiet == installed = {} /\ GenStart

\* A caller is about to call mk_job_name.
NameInit ==
    /\ mk_args \in [easyconfig : EasyconfigPaths, host_arch : NameArchs, target_arch : NameArchs]
    /\ mk_result = <<>>
    /\ spc = "idle"
    /\ GenQuiet

(* job_name = mk_job_name(easyconfig, host_arch, target_arch) *)
MkJobName ==
    /\ spc = "idle"
    /\ mk_result' = mk_job_name(mk_args.easyconfig, mk_args.host_arch, mk_args.target_arch)
    /\ spc' = "named"
    /\ UNCHANGED <<mk_args, installed, full_tcs, config_dict, user_tc_gen, generation, count, used>>
    /\ UNCHANGED <<classvars, mainvars, loopvars, jobvars, lockvars, racevars>>

\* os.path.join(APPS_BRUSSEL, os.getenv('VSC_OS_LOCAL'), install_dir)
InstallPath(install_dir) == <<"APPS_BRUSSEL", "VSC_OS_LOCAL", install_dir>>

\* Mutation of HasGpuPartition: every host arch is taken to have a GPU partition.
HasGpuPartition_Always(host_arch) == TRUE

\* if ARCHS[host_arch]['partition']['gpu']
HasGpuPartition(host_arch) == Truthy(ARCHS[host_arch].partition.gpu)

\* job = {..., 'tmp': '/dev/shm', ...}
DEV_SHM == <<"/dev/shm">>

\* Number of build hosts of one run of the for loop.
MaxBuildHosts == 2

\* The target arch of the iteration (lines 244-245).
TargetArch(host_arch, job_dict) ==
    IF ~Truthy(job_dict.target_arch) THEN host_arch ELSE job_dict.target_arch

\* job['tmp'] after lines 248-251 of the iteration.
JobTmp(host_arch, job_dict) ==
    IF tmp_option = "tmp" THEN <<"/tmp">>
    ELSE IF tmp_option = "tmp_scratch" THEN <<"$VSC_SCRATCH", TargetArch(host_arch, job_dict)>>
    ELSE job_dict.tmp

\* job_options before the job is submitted (lines 241-302); job_dict is the
\* job dict at the start of the iteration, of which job_options is the copy.
JobOptions(host_arch, host_partition, job_dict, with_gpu) ==
    LET target == TargetArch(host_arch, job_dict)
        install_dir == target
        options == [host_arch |-> host_arch,
                    target_arch |-> target,
                    tmp |-> job_dict.tmp,
                    eb_buildpath |-> JobTmp(host_arch, job_dict) \o <<"eb-submit-build">>,
                    optarch |-> IF target # host_arch THEN ARCHS[target].opt ELSE None,
                    job_name |-> mk_job_name(Easyconfig, host_arch, target),
                    gpus |-> 0,
                    partition |-> host_partition,
                    cluster |-> PARTITIONS[host_partition].cluster,
                    eb_installpath |-> InstallPath(install_dir)]
    IN IF with_gpu /\ HasGpuPartition(host_arch)
         THEN [options EXCEPT !.partition = ARCHS[host_arch].partition.gpu, !.gpus = 1]
         ELSE options

\* The build hosts that main() can select with the tables of clusters.py.
BuildHosts ==
    {<<a, ARCHS[a].partition.cpu>> : a \in DOMAIN ARCHS} \cup
    {<<PARTITIONS[p].arch, p>> : p \in DOMAIN PARTITIONS}

\* The lists of build hosts of one run of the for loop.
BuildHostLists == UNION {[1..n -> BuildHosts] : n \in 1..MaxBuildHosts}

\* The for loop has taken the first build host and copied the job dict.
LoopInit ==
    /\ \E hosts \in BuildHostLists : host = Head(hosts) /\ rest = Tail(hosts)
    /\ job \in [target_arch : {None} \cup DOMAIN ARCHS, tmp : {DEV_SHM}]
    /\ gpu \in BOOLEAN
    /\ tmp_option \in {None, "tmp", "tmp_scratch"}
    /\ job_options = job

(* One iteration of the build loop: job_options = dict(job) is filled, then  *)
(* submit_build_job when the job has a partition, and sys.exit(1) when the   *)
(* submission fails.                                                         *)
BuildLoopBody ==
    /\ job_options = job
    /\ status = Running
    /\ job_options' = JobOptions(host[1], host[2], job, gpu)
    /\ job' = [job EXCEPT !.tmp = JobTmp(host[1], job)]
    /\ IF Truthy(job_options'.partition)
         THEN \E submit_ec \in {0, 1} :
                IF submit_ec # 0
                  THEN /\ status' = 1
                       /\ logged' = logged \cup {MSG_BUILD_SUBMIT}
                       /\ UNCHANGED jobs
                  ELSE /\ jobs' = jobs \cup {job_options'}
                       /\ UNCHANGED <<status, logged>>
         ELSE UNCHANGED <<jobs, status, logged>>
    /\ UNCHANGED <<host, gpu, rest, tmp_option>>
    /\ UNCHANGED <<opts, local_arch, mpc, arch_stack, partition_stack, build_hosts,
                   target_arch, job_tc_gen, raised, fetched, lmod_jobs>>
    /\ UNCHANGED <<classvars, softvars, jobvars, lockvars, racevars>>

(* The for statement takes the next build host: job_options = dict(job). *)
NextBuildHost ==
    /\ job_options # job
    /\ status = Running
    /\ rest # <<>>
    /\ host' = Head(rest)
    /\ rest' = Tail(rest)
    /\ job_options' = job
    /\ UNCHANGED <<job, gpu, tmp_option>>
    /\ UNCHANGED <<mainvars, classvars, softvars, jobvars, lockvars, racevars>>

(***************************************************************************)
(* Part 5: set_toolchain_generation of softinstall.py and the tables of    *)
(* the two classifiers.  get_toolchain_hierarchy() of EasyBuild returns    *)
(* the hierarchy of a toolchain of which it finds the easyconfig and       *)
(* raises EasyBuildError for another.                                      *)
(***************************************************************************)

\* softinstall.py: SUPPORTED_TCS
SUPPORTED_TCS == <<"foss", "intel", "gomkl", "gimkl", "gimpi">>

\* hooks_hydra.py: VALID_TOOLCHAINS, in declaration order
VALID_TOOLCHAINS ==
    <<[gen |-> "2024a", toolchains |-> <<"foss", "intel", "gomkl", "gimkl", "gimpi">>,
       subdir |-> "2024a"],
      [gen |-> "25.1", toolchains |-> <<"nvidia-compilers", "NVHPC">>, subdir |-> "2024a"]>>

\* The toolchains of which the easyconfig can be there, as (name, version).
KnownToolchains == {<<"foss", "2022a">>, <<"foss", "2023a">>, <<"foss", "2024a">>}

\* The (sub)toolchains of a known toolchain.
Hierarchy(tc) ==
    CASE tc = <<"foss", "2022a">> ->
           <<[name |-> "GCCcore", version |-> "11.3.0"], [name |-> "foss", version |-> "2022a"]>>
      [] tc = <<"foss", "2023a">> ->
           <<[name |-> "GCCcore", version |-> "12.3.0"], [name |-> "foss", version |-> "2023a"]>>
      [] tc = <<"foss", "2024a">> ->
           <<[name |-> "GCCcore", version |-> "13.3.0"], [name |-> "foss", version |-> "2024a"]>>

\* get_toolchain_hierarchy({'name': tc_name, 'version': tcgen}) inside the try
\* statement: nothing is added when EasyBuildError is raised.
get_toolchain_hierarchy(tc_name, tcgen) ==
    IF <<tc_name, tcgen>> \in installed THEN Hierarchy(<<tc_name, tcgen>>) ELSE <<>>

\* The inner for loop of the two table builders, from toolchain name i on.
RECURSIVE Extended(_, _, _)
Extended(tc_names, tcgen, i) ==
    IF i > Len(tc_names) THEN <<>>
    ELSE get_toolchain_hierarchy(tc_names[i], tcgen) \o Extended(tc_names, tcgen, i + 1)

\* hooks_hydra.py: get_tc_versions(), built from the easyconfigs found now.
BuiltTcVersions ==
    [i \in 1..Len(VALID_TOOLCHAINS) |->
       [gen |-> VALID_TOOLCHAINS[i].gen,
        toolchains |-> Elements(Extended(VALID_TOOLCHAINS[i].toolchains,
                                         VALID_TOOLCHAINS[i].gen, 1)),
        subdir |-> VALID_TOOLCHAINS[i].subdir]]

\* softinstall.py, lines 78-86: SUPPORTED_FULL_TCS built from the easyconfigs found now.
BuiltFullTcs ==
    [toolcgen \in Elements(SUPPORTED_TCGENS) |-> Extended(SUPPORTED_TCS, toolcgen, 1)]

\* Mutation of NotBuilt: the table is taken for empty at every call.
NotBuilt_Always(table) == TRUE

\* not SUPPORTED_FULL_TCS
NotBuilt(table) == DOMAIN table = {}

\* The first for loop of set_toolchain_generation from generation i on: the
\* first generation with the toolchain or the name and version, None when the
\* loop ends without return.
RECURSIVE FirstSupported(_, _, _)
FirstSupported(cfg, table, i) ==
    IF i > Len(SUPPORTED_TCGENS) THEN None
    ELSE IF \/ toolchain(cfg) \in Elements(table[SUPPORTED_TCGENS[i]])
            \/ name_version(cfg) \in Elements(table[SUPPORTED_TCGENS[i]])
           THEN SUPPORTED_TCGENS[i]
    ELSE FirstSupported(cfg, table, i + 1)

\* tcnames = [x['name'] for x in SUPPORTED_FULL_TCS[toolcgen]]
tcnames(table, toolcgen) == {x.name : x \in Elements(table[toolcgen])}

\* The second for loop: a supported (sub)toolchain with an unsupported version.
UnsupportedVersion(cfg, table) ==
    \E toolcgen \in Elements(SUPPORTED_TCGENS) :
        cfg.tcname \in tcnames(table, toolcgen) \/ cfg.name \in tcnames(table, toolcgen)

\* The order of the generation strings.
TcgenOrder == <<"2021b", "2022a", "2023a">>

Ord(tcgen) == CHOOSE i \in 1..Len(TcgenOrder) : TcgenOrder[i] = tcgen

\* Mutation of Latest: the first element of the list.
Latest_First(list) == list[1]

\* sorted(list)[-1]
Latest(list) == CHOOSE x \in Elements(list) : \A y \in Elements(list) : Ord(y) <= Ord(x)

\* set_toolchain_generation from line 88 on, with the table of the call.
toolchain_generation(cfg, table) ==
    LET toolcgen == FirstSupported(cfg, table, 1) IN
      IF toolcgen # None THEN toolcgen
      ELSE IF UnsupportedVersion(cfg, table) THEN False
      ELSE IF cfg.easyblock = "Toolchain" THEN False
      ELSE IF cfg.tcname = "system" THEN Latest(SUPPORTED_TCGENS)
      ELSE False

\* The easyconfigs given to set_toolchain_generation.
Configs ==
    {[name |-> nv[1], version |-> nv[2], tcname |-> tc[1], tcversion |-> tc[2],
      easyblock |-> eb] :
        nv \in {<<"zlib", "1.2.11">>, <<"GCCcore", "10.2.0">>, <<"GCCcore", "11.3.0">>,
                <<"fosscuda", "2020b">>},
        tc \in {<<"system", "system">>, <<"GCCcore", "12.3.0">>},
        eb \in {"Toolchain", "ConfigureMake"}}

\* The values of the tc_gen argument.
UserTcGens == {None, "2021b", "2022a"}

\* The easyconfigs that the parse hook gets in one process.
HookSoftwares ==
    {[name |-> "zlib", version |-> "1.3.1", tcname |-> "system", tcversion |-> "system",
      easyblock |-> "ConfigureMake"],
     [name |-> "zlib", version |-> "1.3.1", tcname |-> "GCCcore", tcversion |-> "13.3.0",
      easyblock |-> "ConfigureMake"]}

\* Number of calls of the classifiers in one process.
MaxCalls == 4

Calls == count.soft_calls + count.hook_calls

GenInit == installed \in SUBSET KnownToolchains /\ GenStart

(* softinstall.py: set_toolchain_generation(easyconfig, tc_gen). *)
set_toolchain_generation ==
    /\ Calls < MaxCalls
    /\ \E cfg \in Configs, tc_gen \in UserTcGens :
         /\ config_dict' = cfg
         /\ user_tc_gen' = tc_gen
         /\ IF Truthy(tc_gen)
              THEN /\ generation' = IF tc_gen \in Elements(SUPPORTED_TCGENS) THEN tc_gen ELSE False
                   /\ count' = [count EXCEPT !.soft_calls = @ + 1]
                   /\ UNCHANGED <<full_tcs, used>>
              ELSE /\ IF NotBuilt(full_tcs)
                        THEN /\ full_tcs' = BuiltFullTcs
                             /\ count' = [count EXCEPT !.soft_calls = @ + 1, !.soft_builds = @ + 1]
                        ELSE /\ UNCHANGED full_tcs
                             /\ count' = [count EXCEPT !.soft_calls = @ + 1]
                   /\ used' = [used EXCEPT !.soft = @ \cup {full_tcs'}]
                   /\ generation' = toolchain_generation(cfg, full_tcs')
    /\ UNCHANGED <<mk_args, mk_result, spc, installed>>
    /\ UNCHANGED <<classvars, mainvars, loopvars, jobvars, lockvars, racevars>>

(* hooks_hydra.py: parse_hook of the next easyconfig of the process:        *)
(* update_moduleclass with the table that get_tc_versions() builds.         *)
parse_hook ==
    /\ Calls < MaxCalls
    /\ hpc # "raised"
    /\ \E sw \in HookSoftwares :
         /\ software' = sw
         /\ tc_versions' = BuiltTcVersions
         /\ count' = [count EXCEPT !.hook_calls = @ + 1, !.hook_builds = @ + 1]
         /\ used' = [used EXCEPT !.hook = @ \cup {tc_versions'}]
         /\ LET tc_gen == tc_gen_subdir(sw, tc_versions') IN
              IF NotTcGen(tc_gen)
                THEN hpc' = "raised" /\ UNCHANGED moduleclass
                ELSE hpc' = "parsed" /\ moduleclass' = <<tc_gen, "all">>
    /\ UNCHANGED <<mk_args, mk_result, spc, installed, full_tcs, config_dict, user_tc_gen,
                   generation>>
    /\ UNCHANGED <<mainvars, loopvars, jobvars, lockvars, racevars>>

(* The easyconfig of one more toolchain is put where EasyBuild finds it. *)
AddEasyconfig ==
    /\ \E tc \in KnownToolchains \ installed : installed' = installed \cup {tc}
    /\ UNCHANGED <<mk_args, mk_result, spc, full_tcs, config_dict, user_tc_gen, generation,
                   count, used>>
    /\ UNCHANGED <<classvars, mainvars, loopvars, jobvars, lockvars, racevars>>

(***************************************************************************)
(* Part 6: two build jobs with bwrap that run BUILD_JOB at the same time   *)
(* on the same file system.  A path is the sequence of its components; the *)
(* directories above those of a module are there and are never removed.    *)
(***************************************************************************)

Jobs == {"job1", "job2"}

Other(j) == IF j = "job1" THEN "job2" ELSE "job1"

\* ${target_arch}, $modname and $modversion of the jobs.
RaceArchs == {"skylake", "zen4"}
RaceModnames == {"zlib", "GCC"}
RaceModversions == {"1.3.1", "1.3.2"}

Keys == [arch : RaceArchs, modname : RaceModnames, modversion : RaceModversions]

\* The subdir of the toolchain generation that the glob */ of source_modsymlink finds.
GenSubdir == "2024a"

\* Mutation of SoftBwrapPath: the staging directory of every target arch is the same.
SoftBwrapPath_NoArch(k) == <<"bwrap", "software", k.modname>>

\* softbwrap="/apps/brussel/bwrap/$VSC_OS_LOCAL/${target_arch}/software/$modname"
SoftBwrapPath(k) == <<"bwrap", k.arch, "software", k.modname>>

\* softreal="$appsmnt/$VSC_OS_LOCAL/${target_arch}/software/$modname"
SoftRealPath(k) == <<"appsmnt", k.arch, "software", k.modname>>

\* source_installdir="$softbwrap/$modversion/"
SourceInstalldirPath(k) == SoftBwrapPath(k) \o <<k.modversion>>

\* dest_installdir="$softreal/$modversion/"
DestInstalldirPath(k) == SoftRealPath(k) \o <<k.modversion>>

\* installbase="/apps/brussel/$VSC_OS_LOCAL/${target_arch}"
InstallBasePath(k) == <<"apps", k.arch>>

\* source_modfile="$installbase/$SUBDIR_MODULES_BWRAP/$SUFFIX_MODULES_PATH/$modname/$modversion.lua"
SourceModfilePath(k) ==
    InstallBasePath(k) \o <<".modules_bwrap", "collection", k.modname, k.modversion>>

\* source_modsymlink: $installbase/$SUBDIR_MODULES_BWRAP/*/$SUFFIX_MODULES_SYMLINK/$modname/$modversion.lua
SourceModsymlinkPath(k) ==
    InstallBasePath(k) \o <<".modules_bwrap", GenSubdir, "all", k.modname, k.modversion>>

\* dest_modfile="$installbase/$SUBDIR_MODULES/$SUFFIX_MODULES_PATH/$modname/$modversion.lua"
DestModfilePath(k) ==
    InstallBasePath(k) \o <<"modules", "collection", k.modname, k.modversion>>

\* dest_modsymlink: source_modsymlink with $SUBDIR_MODULES for $SUBDIR_MODULES_BWRAP
DestModsymlinkPath(k) ==
    InstallBasePath(k) \o <<"modules", GenSubdir, "all", k.modname, k.modversion>>

\* tempfile=$(mktemp -p /tmp): a name that no other job has
TempfilePath(j) == <<"tmp", j>>

\* dirname of a path
Dirname(path) == SubSeq(path, 1, Len(path) - 1)

\* The paths that the script of a job with the key names.
NamedPaths(k) ==
    {SoftBwrapPath(k), SourceInstalldirPath(k), DestInstalldirPath(k), SourceModfilePath(k),
     SourceModsymlinkPath(k), DestModfilePath(k), DestModsymlinkPath(k),
     Dirname(DestModfilePath(k)), Dirname(DestModsymlinkPath(k))} \cup
    {SourceInstalldirPath(k) \o <<f>> : f \in Files} \cup
    {DestInstalldirPath(k) \o <<f>> : f \in Files}

AllPaths == UNION {NamedPaths(k) : k \in Keys} \cup {TempfilePath(j) : j \in Jobs}

\* The content of a path.
Absent == [kind |-> "absent", by |-> "", to |-> <<>>]
Directory == [kind |-> "dir", by |-> "", to |-> <<>>]
FileOf(by) == [kind |-> "file", by |-> by, to |-> <<>>]
LinkTo(path) == [kind |-> "link", by |-> "", to |-> path]

IsPrefix(dir, path) == Len(dir) <= Len(path) /\ SubSeq(path, 1, Len(dir)) = dir

\* rm -rf "$path"
Removed(files, path) ==
    [p \in DOMAIN files |-> IF IsPrefix(path, p) THEN Absent ELSE files[p]]

\* The file system with the content of some paths replaced.
Written(files, contents) ==
    [p \in DOMAIN files |-> IF p \in DOMAIN contents THEN contents[p] ELSE files[p]]

\* One path with one content.
At(path, content) == [p \in {path} |-> content]

\* The EasyBuild command of job j in its bwrap namespace: a build that
\* succeeds replaces the staged install dir and writes the staged module file
\* and its symlink; "empty" leaves the staged install dir without files.
EasyBuildWrites(files, j, k, outcome) ==
    LET cleared == Removed(files, SourceInstalldirPath(k))
        staged == Written(Written(Written(cleared,
                      At(SourceInstalldirPath(k), Directory)),
                      At(SourceModfilePath(k), FileOf(j))),
                      At(SourceModsymlinkPath(k), LinkTo(SourceModfilePath(k))))
    IN IF outcome = "empty" THEN staged
       ELSE Written(staged, [p \in {SourceInstalldirPath(k) \o <<f>> : f \in Files} |-> FileOf(j)])

\* The four tests of lines 111-114.
PreconditionsHold(files, k) ==
    /\ files[SourceInstalldirPath(k)].kind = "dir"
    /\ \E f \in Files : files[SourceInstalldirPath(k) \o <<f>>].kind = "file"
    /\ files[SourceModfilePath(k)].kind = "file"
    /\ files[SourceModsymlinkPath(k)] = LinkTo(SourceModfilePath(k))

\* Mutation of RsyncFails: rsync returns 0 whatever it finds.
RsyncFails_Never(files, k, outcome) == FALSE

\* rsync -a returns non-zero: the source directory is not there, or the copy fails.
RsyncFails(files, k, outcome) ==
    files[SourceInstalldirPath(k)].kind # "dir" \/ outcome = "fail"

\* rsync -a --link-dest="$source_installdir" "$source_installdir" "$dest_installdir"
RsyncWrites(files, k) ==
    Written(Written(files, At(DestInstalldirPath(k), Directory)),
            [p \in {DestInstalldirPath(k) \o <<f>> :
                      f \in {g \in Files : files[SourceInstalldirPath(k) \o <<g>>].kind = "file"}} |->
               files[SourceInstalldirPath(k) \o <<p[Len(p)]>>]])

\* A script after one of its commands: the file system, the position, the exit code.
After(files, position, code) == [fs |-> files, pc |-> position, exit |-> code]

\* The next command of the script of job j with key k and fate f in state s.
StepJob(j, k, f, s) ==
    CASE s.pc = "mkdir_stage" ->
           After(Written(s.fs, At(SoftBwrapPath(k), Directory)), "eb", -1)
      [] s.pc = "eb" ->
           IF f.eb = "fail" THEN After(s.fs, "done", 1)
           ELSE After(EasyBuildWrites(s.fs, j, k, f.eb), "pre", -1)
      [] s.pc = "pre" ->
           IF PreconditionsHold(s.fs, k) THEN After(s.fs, "mkdir_dest", -1)
           ELSE After(s.fs, "done", 1)
      [] s.pc = "mkdir_dest" ->
           After(Written(Written(Written(s.fs,
                     At(Dirname(DestModfilePath(k)), Directory)),
                     At(Dirname(DestModsymlinkPath(k)), Directory)),
                     At(TempfilePath(j), FileOf(j))), "rsync", -1)
      [] s.pc = "rsync" ->
           IF RsyncFails(s.fs, k, f.rsync) THEN After(s.fs, "done", 1)
           ELSE After(RsyncWrites(s.fs, k), "cp", -1)
      [] s.pc = "cp" ->
           IF s.fs[SourceModfilePath(k)].kind = "file"
             THEN After(Written(s.fs, At(DestModfilePath(k), s.fs[SourceModfilePath(k)])), "ln", -1)
             ELSE After(s.fs, "ln", -1)
      [] s.pc = "ln" ->
           After(Written(s.fs, At(TempfilePath(j), LinkTo(DestModfilePath(k)))), "mv", -1)
      [] s.pc = "mv" ->
           After(Written(Written(s.fs, At(DestModsymlinkPath(k), s.fs[TempfilePath(j)])),
                         At(TempfilePath(j), Absent)), "test", -1)
      [] s.pc = "test" ->
           IF s.fs[DestModsymlinkPath(k)] = LinkTo(DestModfilePath(k))
             THEN After(s.fs, "rm_installdir", -1)
             ELSE After(s.fs, "done", 1)
      [] s.pc = "rm_installdir" ->
           After(Removed(s.fs, SourceInstalldirPath(k)), "rm_modfile", -1)
      [] s.pc = "rm_modfile" ->
           After(Removed(s.fs, SourceModfilePath(k)), "rm_modsymlink", -1)
      [] s.pc = "rm_modsymlink" ->
           After(Removed(s.fs, SourceModsymlinkPath(k)), "done", 0)

\* The job is past its preconditions and its rsync has not run.
BeforeSync(j) == rpc[j] \in {"mkdir_dest", "rsync"}

\* The job is in its script: it has created its staging directory and has not ended.
InScript(j) == rpc[j] \notin {"mkdir_stage", "done"}

Fates == [eb : {"ok", "fail", "empty"}, rsync : {"ok", "fail"}]

\* A file system without the modules, and one with older installations of them.
NothingInstalled == [p \in AllPaths |-> Absent]

OlderInstalled ==
    [p \in AllPaths |->
       IF \E k \in Keys : p \in {DestInstalldirPath(k), Dirname(DestModfilePath(k)),
                                 Dirname(DestModsymlinkPath(k))}
         THEN Directory
       ELSE IF \E k \in Keys : p \in {DestInstalldirPath(k) \o <<f>> : f \in Files} \cup
                                     {DestModfilePath(k)}
         THEN FileOf("older")
       ELSE IF \E k \in Keys : p = DestModsymlinkPath(k)
         THEN LinkTo(Dirname(p) \o <<"older">>)
       ELSE Absent]

\* No job is there, and no path is looked at.
RaceQuiet ==
    /\ key = [j \in Jobs |-> [arch |-> "skylake", modname |-> "zlib", modversion |-> "1.3.1"]]
    /\ fate = [j \in Jobs |-> [eb |-> "fail", rsync |-> "fail"]]
    /\ disk = [p \in {} |-> Absent]
    /\ disk0 = disk
    /\ rpc = [j \in Jobs |-> "done"]
    /\ rexit = [j \in Jobs |-> 1]
    /\ robbed = [j \in Jobs |-> FALSE]
    /\ overlapped = FALSE

\* Two jobs start: job1 for zlib/1.3.1 on skylake, job2 for any module.
RaceInit ==
    /\ \E k \in Keys :
         key = [j \in Jobs |-> IF j = "job1"
                                 THEN [arch |-> "skylake", modname |-> "zlib",
                                       modversion |-> "1.3.1"]
                                 ELSE k]
    /\ fate \in [Jobs -> Fates]
    /\ disk0 \in {NothingInstalled, OlderInstalled}
    /\ disk = disk0
    /\ rpc = [j \in Jobs |-> "mkdir_stage"]
    /\ rexit = [j \in Jobs |-> -1]
    /\ robbed = [j \in Jobs |-> FALSE]
    /\ overlapped = FALSE

(* Job j runs the next command of its script. *)
RunJob(j) ==
    /\ rpc[j] # "done"
    /\ LET s == StepJob(j, key[j], fate[j], After(disk, rpc[j], rexit[j])) IN
         /\ disk' = s.fs
         /\ rpc' = [rpc EXCEPT ![j] = s.pc]
         /\ rexit' = [rexit EXCEPT ![j] = s.exit]
    /\ robbed' = [robbed EXCEPT ![Other(j)] =
                    @ \/ (/\ rpc[j] = "rm_installdir"
                          /\ BeforeSync(Other(j))
                          /\ SourceInstalldirPath(key[j]) = SourceInstalldirPath(key[Other(j)]))]
    /\ overlapped' = (overlapped \/ (InScript(j) /\ InScript(Other(j))))
    /\ UNCHANGED <<key, fate, disk0>>
    /\ UNCHANGED <<classvars, mainvars, loopvars, softvars, jobvars, lockvars>>

(***************************************************************************)
(* Specifications.                                                         *)
(***************************************************************************)

\* The parts of the model that a specification leaves alone.
ClassQuiet ==
    /\ tc_versions = <<>>
    /\ software = [name |-> "zlib", version |-> "1.3.1", tcname |-> "system",
                   tcversion |-> "system", easyblock |-> "ConfigureMake"]
    /\ hpc = "idle"
    /\ moduleclass = Moduleclass

MainQuiet ==
    /\ opts = [arch |-> <<>>, partition |-> <<>>, cross_compile |-> None, local |-> FALSE,
               lmod_cache_only |-> FALSE, args |-> TRUE]
    /\ local_arch = "skylake"
    /\ MainStart

LoopQuiet ==
    /\ host = <<"skylake", "skylake">>
    /\ job = [target_arch |-> None, tmp |-> DEV_SHM]
    /\ gpu = FALSE
    /\ job_options = job
    /\ rest = <<>>
    /\ tmp_option = None

NameQuiet ==
    /\ mk_args = [easyconfig |-> Easyconfig, host_arch |-> None, target_arch |-> None]
    /\ mk_result = <<>>
    /\ spc = "idle"

SoftQuiet == NameQuiet /\ GenQuiet

ToolQuiet == ClassQuiet /\ MainQuiet /\ LoopQuiet /\ SoftQuiet /\ RaceQuiet


\* The job script alone.
Init == JobInit /\ LockInit /\ ToolQuiet

Next ==
    \/ Lookup \/ MkdirStage \/ BwrapPrefix \/ RunEasyBuild \/ CheckEc
    \/ Paths \/ PreDir \/ PreEmpty \/ PreModfile \/ PreSymlink \/ MkdirDest
    \/ Rsync \/ Cp \/ Ln \/ Mv \/ TestLink \/ RsyncModule \/ Rm \/ LmodCache
    \/ RerunPhase2

Spec == Init /\ [][Next]_vars

\* The fetch lock alone.
JobQuiet ==
    /\ JobInit
    /\ variant = "template" /\ bwrap /\ lmod_cache
    /\ dest_modfile = "none"

LockSpecInit == JobQuiet /\ LockInit /\ ToolQuiet

LockNext ==
    \/ \E p \in Procs : CallAcquire(p)
    \/ \E p \in Procs : LockCall(p)
    \/ \E p \in Procs : LockWait(p)
    \/ \E p \in Procs : LockTimeout(p)
    \/ \E p \in Procs : Wake(p)
    \/ \E p \in Procs : Release(p)
    \/ Tick

LockSpec == LockSpecInit /\ [][LockNext]_vars

\* Every build process keeps running and time keeps passing.
FairLockSpec ==
    /\ LockSpec
    /\ \A p \in Procs : WF_vars(LockCall(p) \/ LockWait(p) \/ LockTimeout(p) \/ Wake(p))
    /\ WF_vars(Tick)

\* calc_tc_gen_subdir and the parse hook, for every table and easyconfig.
ClassifyInit == JobQuiet /\ LockInit /\ ClassInit /\ MainQuiet /\ LoopQuiet /\ SoftQuiet /\ RaceQuiet

ClassifyNext == update_moduleclass

ClassifySpec == ClassifyInit /\ [][ClassifyNext]_vars

\* The easyconfigs of the command lines of submit_build.
MainSoftwares ==
    {sw \in Softwares : /\ sw.name \in {"zlib", "fosscuda"}
                        /\ sw.tcname \in {"system", "foss"}
                        /\ sw.easyblock = (IF sw.name = "zlib" THEN "ConfigureMake"
                                                                ELSE "Toolchain")}

\* The table of a site with foss/2024a installed.
MainTable ==
    <<[gen |-> "2024a", toolchains |-> ToolchainPairs, subdir |-> "2024a"],
      [gen |-> "25.1", toolchains |-> {}, subdir |-> "2024a"]>>

\* submit_build up to the build loop, and the parse hook of the EasyBuild
\* runs on the same easyconfig.
MainSpecInit ==
    /\ JobQuiet /\ LockInit /\ LoopQuiet /\ SoftQuiet /\ RaceQuiet
    /\ tc_versions = MainTable
    /\ software \in MainSoftwares
    /\ hpc = "idle"
    /\ moduleclass = Moduleclass
    /\ MainInit

MainNext ==
    \/ Options \/ SetHostArchs \/ SetPartitions \/ CrossCompile \/ SetToolchainGeneration
    \/ update_moduleclass

MainSpec == MainSpecInit /\ [][MainNext]_vars

\* The body of the build loop, for every build host.
LoopSpecInit == JobQuiet /\ LockInit /\ ClassQuiet /\ MainQuiet /\ LoopInit /\ SoftQuiet /\ RaceQuiet

LoopNext == BuildLoopBody \/ NextBuildHost

LoopSpec == LoopSpecInit /\ [][LoopNext]_vars

\* mk_job_name on the easyconfig paths.
NameSpecInit == JobQuiet /\ LockInit /\ ClassQuiet /\ MainQuiet /\ LoopQuiet /\ NameInit /\ RaceQuiet

NameNext == MkJobName

NameSpec == NameSpecInit /\ [][NameNext]_vars

\* The two classifiers in a process, and the easyconfigs that appear.
GenSpecInit ==
    /\ JobQuiet /\ LockInit /\ ClassQuiet /\ MainQuiet /\ LoopQuiet /\ NameQuiet /\ RaceQuiet
    /\ GenInit

GenNext == set_toolchain_generation \/ parse_hook \/ AddEasyconfig

GenSpec == GenSpecInit /\ [][GenNext]_vars

\* Two build jobs at the same time.
RaceSpecInit ==
    /\ JobQuiet /\ LockInit /\ ClassQuiet /\ MainQuiet /\ LoopQuiet /\ SoftQuiet
    /\ RaceInit

RaceNext == \E j \in Jobs : RunJob(j)

RaceSpec == RaceSpecInit /\ [][RaceNext]_vars

(***************************************************************************)
(* Properties of the job script.                                           *)
(***************************************************************************)

\* The mv of the symlink swap was executed and succeeded.
Swapped == "mv" \in ran /\ "mv" \notin failed

\* The cp of the module file was executed and succeeded.
CopyCompleted == "cp" \in ran /\ "cp" \notin failed

\* C1: when the EasyBuild command exits with a non-zero code the script exits
\* with that code before any phase-2 command runs: phase 2 is never started,
\* the real tree and the staging tree stay as EasyBuild left them.
C1_FailedBuildSkipsPhase2 ==
    ec \notin {-1, 0} =>
        /\ pc \in {"check_ec", "done"}
        /\ pc = "done" => exit_code = ec
        /\ runs = 0
        /\ ran = {}
        /\ FileSystem = snap

C1_Witness ==
    /\ pc = "done" /\ bwrap /\ ec = MaxExitCode /\ exit_code = MaxExitCode
    /\ source_installdir.exists /\ ~IsEmptyDir(source_installdir)
    /\ source_modfile = "new"

\* C2: at every point of phase 2 the published module symlink still is what
\* it was before phase 2 or points to the real module file holding the
\* complete staged contents, and it is retargeted only after the copy of the
\* module file completed successfully.
C2_SymlinkOnlyAfterCopy ==
    (variant = "template" /\ runs >= 1) =>
        /\ ~Swapped => dest_modsymlink = snap.dest_modsymlink
        /\ Swapped => /\ CopyCompleted
                      /\ dest_modsymlink = "dest_modfile"
                      /\ dest_modfile = snap.source_modfile

\* C3: the preconditions of phase 2 are checked in the order directory
\* exists, directory non-empty, module file non-empty; the first that fails
\* ends the script with exit code 1 and its own message, before any
\* synchronization command ran and with the real tree unchanged.
C3_PreconditionOrder ==
    (runs >= 1 /\ pc = "done") =>
        /\ ~snap.source_installdir.exists => out = {MSG_NOTEXIST}
        /\ (snap.source_installdir.exists /\ IsEmptyDir(snap.source_installdir))
              => out = {MSG_EMPTY}
        /\ (snap.source_installdir.exists /\ ~IsEmptyDir(snap.source_installdir)
              /\ snap.source_modfile \in {"none", "empty"})
              => out = {MSG_MODFILE}
        /\ out \cap PreconditionMsgs # {} =>
              /\ exit_code = 1
              /\ ran = {}
              /\ FileSystem = snap

C3_Witness ==
    /\ runs = 1 /\ pc = "done"
    /\ snap.source_installdir.exists /\ IsEmptyDir(snap.source_installdir)
    /\ snap.source_modfile = "none"
    /\ out = {MSG_EMPTY}

\* C4: whenever phase 2 reports success, the real software directory holds
\* every staged file with the staged contents and the real module file (and
\* the published symlink to it) holds the bytes of the staged module file.
C4_SuccessMeansReconciled ==
    MSG_MOVED \in out =>
        /\ \A f \in Files :
              snap.source_installdir.files[f] # "none" =>
                  dest_installdir[f] = snap.source_installdir.files[f]
        /\ dest_modfile = snap.source_modfile
        /\ variant = "template" => dest_modsymlink = "dest_modfile"

C6_SyncFailureKeepsStaging ==
    failed \cap {"rsync", "cp", "rsync_module"} # {} =>
        /\ Staging = [source_installdir |-> snap.source_installdir,
                      source_modfile |-> snap.source_modfile,
                      source_modsymlink |-> snap.source_modsymlink,
                      mod_filepath_file |-> snap.mod_filepath_file]
        /\ pc = "done" => exit_code > 0

(***************************************************************************)
(* Properties of the fetch lock.                                           *)
(***************************************************************************)

Fetching == {p \in Procs : lpc[p] = "fetching"}

Waiting(p) == lpc[p] \in {"try", "locking", "sleeping"}

\* C7 as stated: at most one process is between a successful
\* acquire_fetch_lock and its release_fetch_lock, whatever the fetch takes.
C7_AtMostOneFetching == Cardinality(Fetching) <= 1

\* C7: two processes are inside the fetch step of the same lock key at the
\* same time only if one of them has been there for longer than the lease
\* of 3600 s: fetch steps that end within the lease never overlap.
C7_AtMostOneWithinLease ==
    \A p, q \in Procs :
        (p # q /\ p \in Fetching /\ q \in Fetching) =>
            (held_for[p] > 3600 \/ held_for[q] > 3600)

C7_Witness ==
    \E p, q \in Procs :
        /\ lpc[p] = "fetching" /\ lock.holder = p /\ held_for[p] = 3600
        /\ lpc[q] = "sleeping" /\ attempts[q] >= 2

\* C8: acquire_fetch_lock always comes to an end, by acquiring the lock or
\* by the fatal error; it sleeps 60 s after each timed-out attempt, for no
\* more than 3600 s in total, and makes no more than 61 attempts; the fatal
\* error comes only once the wait has reached the limit.
C8_BoundedWait ==
    /\ [](\A p \in Procs :
            /\ slept[p] <= 3600
            /\ slept[p] = wait_time[p]
            /\ attempts[p] + (IF lpc[p] = "try" THEN 1 ELSE 0) <= 61
            /\ lpc[p] \in {"locking", "sleeping", "aborted"} => slept[p] = 60 * (attempts[p] - 1)
            /\ lpc[p] = "aborted" => slept[p] = 3600)
    /\ \A p \in Procs : Waiting(p) ~> (lpc[p] \in {"fetching", "aborted"})

C8_Witness ==
    \E p \in Procs : lpc[p] = "aborted" /\ attempts[p] = 61 /\ slept[p] = 3600

\* C9: a process that calls acquire_fetch_lock while another one holds the
\* lock, and keeps holding it beyond the lease, never gets the maximum-wait
\* error under that hold: it acquires the lock once the lease has run out.
C9_LeaseExpiryLetsWaiterIn ==
    /\ [](\A p \in Procs : lpc[p] = "aborted" => ~same_hold[p])
    /\ \A p \in Procs :
          (Waiting(p) /\ same_hold[p]) ~> (lpc[p] = "fetching" \/ ~same_hold[p])

C9_Witness ==
    \E p, q \in Procs :
        /\ lpc[p] = "fetching" /\ lock.holder = p /\ held_for[p] > 3600
        /\ lpc[q] = "try" /\ same_hold[q] /\ wait_time[q] = 3600

\* C10: release_fetch_lock always returns normally: the fetch step ends in
\* "released", with the warning when the process does not hold the lock any
\* more, and never by an exception.
C10_ReleaseNeverRaises ==
    [][\A p \in Procs :
          (lpc[p] = "fetching" /\ lpc'[p] # "fetching") =>
              /\ lpc'[p] = "released"
              /\ warned'[p] = (lock.holder # p)]_vars

C10_Witness ==
    \E p \in Procs : lpc[p] = "released" /\ warned[p] /\ lock.holder \notin {p, Nobody}

(***************************************************************************)
(* Properties of calc_tc_gen_subdir and the parse hook.                    *)
(***************************************************************************)

\* The pair {tcname, tcversion} or the pair {name, version} of the easyconfig
\* is in the toolchain list of the generation.
AppearsIn(sw, tcgen_spec) ==
    \/ [name |-> sw.tcname, version |-> sw.tcversion] \in tcgen_spec.toolchains
    \/ [name |-> sw.name, version |-> sw.version] \in tcgen_spec.toolchains

\* The generations of the table, by position, in which the easyconfig appears.
GenerationsOf(sw, table) == {i \in 1..Len(table) : AppearsIn(sw, table[i])}

\* The same generations declared in the opposite order.
OppositeOrder(table) == [i \in 1..Len(table) |-> table[Len(table) + 1 - i]]

\* The parse hook has set the moduleclass to <tc_gen>/all.
ParsedAs(tc_gen) == hpc = "parsed" /\ moduleclass = <<tc_gen, "all">>

C12_SystemWithoutMatch ==
    (software.tcname = "system" /\ GenerationsOf(software, tc_versions) = {}) =>
        calc_tc_gen_subdir(software) = "system"

\* C12 (amended): an easyconfig on the 'system' toolchain that appears in no
\* generation of the table and whose easyblock is not 'Toolchain' gets
\* 'system', and the parse hook sets the moduleclass to system/all.
C12_SystemSoftwareWithoutMatch ==
    (/\ software.tcname = "system"
     /\ software.easyblock # "Toolchain"
     /\ GenerationsOf(software, tc_versions) = {}) =>
        /\ calc_tc_gen_subdir(software) = "system"
        /\ hpc # "idle" => ParsedAs("system")

C12_Witness ==
    /\ software.tcname = "system"
    /\ software.easyblock # "Toolchain"
    /\ tc_versions # <<>>
    /\ GenerationsOf(software, tc_versions) = {}
    /\ ParsedAs("system")

C14_OppositeOrderDiffers ==
    (Len(tc_versions) = 2 /\ GenerationsOf(software, tc_versions) = {1, 2}) =>
        tc_gen_subdir(software, tc_versions) #
          tc_gen_subdir(software, OppositeOrder(tc_versions))

\* C14 (amended): when the easyconfig appears in both generations of a table,
\* it gets the subdir of the generation declared first; the table with the
\* opposite order gives the subdir of the other generation, so the two results
\* differ exactly when the two subdirs differ.
C14_FirstDeclaredWins ==
    (Len(tc_versions) = 2 /\ GenerationsOf(software, tc_versions) = {1, 2}) =>
        /\ calc_tc_gen_subdir(software) = tc_versions[1].subdir
        /\ tc_gen_subdir(software, OppositeOrder(tc_versions)) = tc_versions[2].subdir
        /\ hpc # "idle" => ParsedAs(tc_versions[1].subdir)

C14_Witness ==
    /\ Len(tc_versions) = 2
    /\ GenerationsOf(software, tc_versions) = {1, 2}
    /\ tc_versions[1].subdir # tc_versions[2].subdir
    /\ ParsedAs(tc_versions[1].subdir)

(***************************************************************************)
(* Properties of submit_build.                                             *)
(***************************************************************************)

\* The command line asks for a build: an easyconfig and no --lmod-cache-only.
BuildRequested == opts.args /\ ~opts.lmod_cache_only

\* main() has executed the cross-compilation block (lines 161-170) to its end
\* or left it with sys.exit.
PastCrossCompile ==
    \/ mpc \in {"tc_gen", "fetch"}
    \/ mpc = "done" /\ MSG_UNKNOWN_TARGET \in logged
    \/ mpc = "done" /\ raised # None /\ partition_stack = <<>>

\* main() has executed the block that defines build_hosts (lines 143-159) to
\* its end or left it with an exception.
PastPartitions == PastCrossCompile \/ (mpc = "done" /\ raised # None)

C16_CrossCompileNeedsOneHost ==
    (opts.cross_compile # None /\ Cardinality(build_hosts) > 1 /\ PastCrossCompile) =>
        mpc = "done" /\ status = 1 /\ jobs = {}

\* C17: an arch name that is no key of ARCHS (--arch, --cross-compile) or a
\* partition name that is no key of PARTITIONS (--partition) ends submit_build
\* with exit status 1 in the blocks that place the build (lines 127-170).
C17_UnknownNamesAreFatal ==
    (/\ BuildRequested
     /\ \/ \E i \in 1..Len(opts.arch) : opts.arch[i] \notin DOMAIN ARCHS
        \/ \E i \in 1..Len(opts.partition) : opts.partition[i] \notin DOMAIN PARTITIONS
        \/ opts.cross_compile \notin {None} \cup DOMAIN ARCHS
     /\ mpc \notin {"options", "archs", "partitions", "cross"}) =>
        mpc = "done" /\ status = 1 /\ jobs = {}

\* The build hosts that C18 states for a command line.
HostsOfCommandLine ==
    IF opts.partition # <<>>
      THEN {<<PARTITIONS[p].arch, p>> :
              p \in {opts.partition[i] : i \in 1..Len(opts.partition)} \cap DOMAIN PARTITIONS}
      ELSE {<<a, ARCHS[a].partition.cpu>> :
              a \in IF opts.local THEN {local_arch}
                    ELSE IF opts.arch # <<>> THEN {opts.arch[i] : i \in 1..Len(opts.arch)}
                    ELSE {a \in DOMAIN ARCHS : ARCHS[a].default}}

\* C18: once main() is past the definition of build_hosts, the build hosts are
\* the pairs (arch of p, p) of the given partitions, whatever archs are given,
\* and without partitions the given archs (the default archs when none is
\* given) with their default CPU partition; an arch list next to a partition
\* list is no error.
C18_HostsOfPartitionsOrArchs ==
    PastPartitions =>
        /\ build_hosts = HostsOfCommandLine
        /\ opts.partition # <<>> => raised = None /\ MSG_UNKNOWN_ARCHS \notin logged

\* The iteration of the build loop has filled job_options.
Rendered == "job_name" \in DOMAIN job_options

\* C19: the job of a build host has the GPU partition of the host arch and
\* gpus = 1 if --gpu is given and the host arch has a GPU partition, and the
\* host partition and gpus = 0 otherwise; host arch, target arch, install path
\* and job name are those of the job without --gpu.
C19_GpuChangesPartitionOnly ==
    Rendered =>
        LET host_arch == host[1]
            target == IF job.target_arch = None THEN host_arch ELSE job.target_arch
            gpu_partition == ARCHS[host_arch].partition.gpu
        IN /\ IF gpu /\ gpu_partition # None
                THEN job_options.partition = gpu_partition /\ job_options.gpus = 1
                ELSE job_options.partition = host[2] /\ job_options.gpus = 0
           /\ job_options.host_arch = host_arch
           /\ job_options.target_arch = target
           /\ job_options.eb_installpath = <<"APPS_BRUSSEL", "VSC_OS_LOCAL", target>>
           /\ job_options.job_name =
                <<"z", "-", host_arch>> \o (IF target # host_arch THEN <<"-", target>> ELSE <<>>)

\* A submitted cross-compiling job with a GPU on a host arch with a GPU partition.
C19_Witness ==
    /\ Rendered
    /\ gpu /\ ARCHS[host[1]].partition.gpu # None
    /\ job.target_arch \notin {None, host[1]}
    /\ job_options.gpus = 1
    /\ job_options \in jobs

\* C20: when submit_build has ended, the jobs it submitted are one per build
\* host, and the build hosts are complete pairs.
C20_OneJobPerBuildHost ==
    (mpc = "done" /\ BuildRequested) =>
        /\ \A h \in build_hosts : Truthy(h[1]) /\ Truthy(h[2])
        /\ \A h \in build_hosts :
             Cardinality({j \in jobs : j.host_arch = h[1] /\ j.partition = h[2]}) = 1

\* A toolchain definition whose declared toolchain is not the system toolchain.
ToolchainOnToolchain == software.easyblock = "Toolchain" /\ software.tcname # "system"

HasEbSuffix(string) ==
    Len(string) >= 3 /\ SubSeq(string, Len(string) - 2, Len(string)) = <<".", "e", "b">>

\* The base name of the path (the characters after its last '/') without its
\* '.eb' suffix.
BaseWithoutEb(path) ==
    LET slashes == {i \in 1..Len(path) : path[i] = "/"}
        last == IF slashes = {} THEN 0 ELSE CHOOSE i \in slashes : \A j \in slashes : j <= i
        base == SubSeq(path, last + 1, Len(path))
    IN IF HasEbSuffix(base) THEN SubSeq(base, 1, Len(base) - 3) ELSE base

\* C21: mk_job_name returns the base name of the easyconfig path without its
\* '.eb' suffix, then '-<host_arch>' when a host arch is given, then
\* '-<target_arch>' only when a target arch is given and is not the host arch.
C21_JobNameOfEasyconfig ==
    spc = "named" =>
        mk_result =
          BaseWithoutEb(mk_args.easyconfig) \o
          (IF mk_args.host_arch # None THEN <<"-", mk_args.host_arch>> ELSE <<>>) \o
          (IF mk_args.target_arch # None /\ mk_args.target_arch # mk_args.host_arch
             THEN <<"-", mk_args.target_arch>> ELSE <<>>)

(***************************************************************************)
(* The generation of set_toolchain_generation.                             *)
(***************************************************************************)

\* The last call of set_toolchain_generation had no tc_gen argument and an
\* easyconfig on the system toolchain that is not a toolchain definition.
SystemSoftwareCall ==
    /\ count.soft_calls > 0
    /\ user_tc_gen = None
    /\ config_dict.tcname = "system"
    /\ config_dict.easyblock # "Toolchain"

\* The value is the greatest of the supported generations.
IsLatestSupported(tcgen) ==
    /\ tcgen \in Elements(SUPPORTED_TCGENS)
    /\ \A other \in Elements(SUPPORTED_TCGENS) : Ord(other) <= Ord(tcgen)

\* The last call had a tc_gen argument and returned it if it is supported,
\* and False if not.
UserGenerationCall ==
    (count.soft_calls > 0 /\ user_tc_gen # None) =>
        /\ user_tc_gen \in Elements(SUPPORTED_TCGENS) => generation = user_tc_gen
        /\ user_tc_gen \notin Elements(SUPPORTED_TCGENS) => generation = False

\* The supported generations, by position, that list the name and version of
\* the easyconfig (its toolchain being 'system') as a (sub)toolchain.
ListedIn(cfg, table) ==
    {i \in 1..Len(SUPPORTED_TCGENS) :
        name_version(cfg) \in Elements(table[SUPPORTED_TCGENS[i]])}

\* A (sub)toolchain of a supported generation has the name of the easyconfig.
NamedLikeToolchain(cfg, table) ==
    \E toolcgen \in Elements(SUPPORTED_TCGENS) :
        \E x \in Elements(table[toolcgen]) : x.name = cfg.name

\* C22 (as stated): without tc_gen, an easyconfig on the system toolchain that
\* is not a toolchain definition gets the latest supported generation, never
\* False and never 'system'; with tc_gen the result is tc_gen if it is
\* supported and False if not.
C22_SystemGetsLatest ==
    /\ SystemSoftwareCall =>
         /\ IsLatestSupported(generation)
         /\ generation # False
         /\ generation # "system"
    /\ UserGenerationCall

\* C22 (amended): without tc_gen, an easyconfig on the system toolchain that
\* is not a toolchain definition gets the first supported generation that
\* lists its name and version; if none does, it gets False when a
\* (sub)toolchain of a supported generation has its name, and the latest
\* supported generation otherwise; it never gets 'system'.  With tc_gen the
\* result is tc_gen if it is supported and False if not.
C22_SystemGetsLatestUnlessToolchainName ==
    /\ SystemSoftwareCall =>
         /\ generation # "system"
         /\ ListedIn(config_dict, full_tcs) # {} =>
              generation = SUPPORTED_TCGENS[Min(ListedIn(config_dict, full_tcs))]
         /\ (ListedIn(config_dict, full_tcs) = {} /\ NamedLikeToolchain(config_dict, full_tcs)) =>
              generation = False
         /\ ~NamedLikeToolchain(config_dict, full_tcs) => IsLatestSupported(generation)
    /\ UserGenerationCall

\* zlib on the system toolchain has got the latest generation from a table
\* that lists the toolchains of both supported generations.
C22_Witness ==
    /\ SystemSoftwareCall
    /\ config_dict.name = "zlib"
    /\ full_tcs["2022a"] # <<>>
    /\ full_tcs["2023a"] # <<>>
    /\ generation = "2023a"

(***************************************************************************)
(* The tables of the two classifiers in one process.                       *)
(***************************************************************************)

OwnPaths(j) == NamedPaths(key[j]) \cup {TempfilePath(j)}

\* The script of job j run to its end from state s with no other job.
RECURSIVE RunAlone(_, _)
RunAlone(j, s) ==
    IF s.pc = "done" THEN s ELSE RunAlone(j, StepJob(j, key[j], fate[j], s))

\* The end of job j if it had run alone on the file system of the start.
Alone(j) == RunAlone(j, After(disk0, "mkdir_stage", -1))

\* The two jobs differ in target arch or in module name.
DifferentModules ==
    key["job1"].arch # key["job2"].arch \/ key["job1"].modname # key["job2"].modname

\* The two jobs have the same target arch, module name and module version.
SameModule == key["job1"] = key["job2"]

C26_CleanupOfOtherFailsSync ==
    SameModule =>
        /\ NamedPaths(key["job1"]) = NamedPaths(key["job2"])
        /\ \A j \in Jobs :
             (robbed[j] /\ rpc[j] = "done") =>
               /\ rexit[j] = 1
               /\ rexit[Other(j)] \in {-1, 0}
               /\ disk[SourceInstalldirPath(key[j])] = Absent

\* job2 has failed in its rsync after job1, which has moved the installation,
\* removed the staged install dir; alone job2 moves its installation.
C26_Witness ==
    /\ SameModule
    /\ robbed["job2"]
    /\ rpc["job2"] = "done" /\ rexit["job2"] = 1
    /\ rpc["job1"] = "done" /\ rexit["job1"] = 0
    /\ fate["job2"] = [eb |-> "ok", rsync |-> "ok"]
    /\ Alone("job2").exit = 0

(***************************************************************************)
(* The tables of clusters.py.                                              *)
(***************************************************************************)

\* The partitions that an arch names: its CPU partition and, if it has one,
\* its GPU partition.
PartitionsOf(arch) ==
    {ARCHS[arch].partition.cpu, ARCHS[arch].partition.gpu} \ {None}

\* C23: every partition of PARTITIONS names an arch of ARCHS, every CPU or GPU
\* partition that an arch of ARCHS names is a partition of PARTITIONS whose
\* arch is that arch, and so the arch and the partition of a build host and
\* the target arch, the partition and the cluster of its job are found in the
\* tables.
C23_TablesAreConsistent ==
    /\ \A p \in DOMAIN PARTITIONS : PARTITIONS[p].arch \in DOMAIN ARCHS
    /\ \A a \in DOMAIN ARCHS :
         \A p \in PartitionsOf(a) : p \in DOMAIN PARTITIONS /\ PARTITIONS[p].arch = a
    /\ host[1] \in DOMAIN ARCHS
    /\ host[2] \in DOMAIN PARTITIONS
    /\ Rendered =>
         /\ job_options.target_arch \in DOMAIN ARCHS
         /\ job_options.partition \in DOMAIN PARTITIONS
         /\ PARTITIONS[job_options.partition].arch = host[1]
         /\ job_options.cluster = PARTITIONS[host[2]].cluster

\* The job of the second build host, on the cluster chimera, has been submitted
\* after a job on a GPU partition.
C23_Witness ==
    /\ Rendered
    /\ rest = <<>>
    /\ host = <<"haswell-ib", "haswell_mpi">>
    /\ job_options.cluster = "chimera"
    /\ job_options \in jobs
    /\ \E j \in jobs : j.gpus = 1 /\ j.partition = "ampere_gpu"

(***************************************************************************)
(* The temporary directory of the build jobs.                              *)
(***************************************************************************)

\* The temporary directory that the command line selects for a target arch:
\* /tmp with --tmp, $VSC_SCRATCH/<target arch> with --tmp-scratch, else /dev/shm.
SelectedTmp(target) ==
    IF tmp_option = "tmp" THEN <<"/tmp">>
    ELSE IF tmp_option = "tmp_scratch" THEN <<"$VSC_SCRATCH", target>>
    ELSE DEV_SHM

\* C29: the 'tmp' option of every rendered job, the first included, is the
\* temporary directory selected by --tmp / --tmp-scratch for the job's own
\* target arch, and its 'eb_buildpath' is eb-submit-build in that directory.
C29_TmpOfOwnTargetArch ==
    Rendered =>
        /\ job_options.tmp = SelectedTmp(job_options.target_arch)
        /\ job_options.eb_buildpath = job_options.tmp \o <<"eb-submit-build">>

(***************************************************************************)
(* Order and gating of the steps of the job script.                        *)
(***************************************************************************)

\* Phase 2 has been started.
Phase2Started == runs >= 1

\* C24: with the sandboxed install, the EasyBuild command starts only with the
\* staging directory made, phase 2 starts only after an EasyBuild run with
\* status 0, and a step of phase 2 that failed has stopped the script with a
\* non-zero status: no later step has run and no Lmod cache job is submitted.
C24_FailedStepStopsScript ==
    bwrap =>
        /\ (pc = "eb" \/ ec # -1) => (softbwrap \/ variant = "rsync_copy")
        /\ Phase2Started => ec = 0
        /\ failed # {} => pc = "done" /\ exit_code > 0 /\ ~lmod_submitted

\* C30: in the first run of the script an Lmod cache job is submitted only
\* with lmod_cache = 1, a 'BUILD_TOOLS: builds_succeeded' line and an EasyBuild
\* status of 0, and with the sandboxed install only after a phase 2 of which
\* every step has run and none has failed.
C30_LmodCacheAfterSuccess ==
    (lmod_submitted /\ runs <= 1 /\ ~prev_moved) =>
        /\ lmod_cache /\ builds_succeeded /\ ec = 0
        /\ bwrap => /\ "rm" \in ran
                    /\ failed = {}
                    /\ MSG_MOVED \in out

=============================================================================
